---- MODULE Spec2Model ----
(***************************************************************************)
(* Emotion-based music generator: the track record (Song), the mood record *)
(* (Emotion), the listener profile (User), the playlist (Playlist) and the *)
(* two recommendation strategies (RuleBasedRecommender, SmartRecommender)  *)
(* and the playback controller (MusicPlayer).                              *)
(*                                                                         *)
(* Ratings are Python floats with one decimal; the model stores them in    *)
(* tenths of a point (45 is 4.5).  The personalized score is a float with  *)
(* at most one decimal; the model stores it in tenths of a point too.      *)
(* A Song object has no __eq__, so a song's identity is its index in       *)
(* `songs`, the heap of constructed Song objects.                          *)
(***************************************************************************)
EXTENDS Integers, Sequences, FiniteSets, TLC

VARIABLES
    songs,          \* the Song objects constructed so far: Seq of records
    song_database,  \* RecommendationEngine._song_database: Seq of song ids
    catalog,        \* the list last handed to update_database (<<>> if none)
    user,           \* User.__preferences (favorite_genres, preferred_tempo)
    playlist,       \* the Playlist returned by the last recommend_for_emotion
    mood,           \* the mood record (Emotion object) under construction
    player,         \* the MusicPlayer: current song, loaded playlist, flags
    ret             \* the last call: its arguments, intermediate lists, result

vars == <<songs, song_database, catalog, user, playlist, mood, player, ret>>

\* ------------------------------------------------------------------ bounds

\* Number of Song objects the loader constructs in Spec.
MaxSongs == 3

\* recommend_for_emotion is called with count in -MaxCount .. MaxCount.
MaxCount == 4

\* Number of record_mood calls in SpecUser.
MaxRecords == 4

\* Number of plays that start in SpecPlayer.
MaxPlays == 2

\* ------------------------------------------------------------- vocabulary

Tempos == {"slow", "medium", "fast"}

\* Emotion types as handed to the Emotion constructor (any case).
EmotionTypeInputs == {"happy", "Happy", "sad"}

\* Intensities as handed to the Emotion constructor (0 and 11 are invalid).
IntensityInputs == {0, 1, 3, 4, 6, 7, 10, 11}

\* Ratings handed to set_rating, in tenths (-5 and 55 are out of range).
RatingInputs == {-5, 0, 1, 5, 17, 30, 33, 49, 50, 55}

\* Tag lists handed to the Song constructor in SpecScore.
TagSets == {{}, {"happy"}, {"Happy"}, {"happy", "sad"}}

\* Genres of the songs in SpecScore and handed to add_favorite_genre.
GenreInputs == {"Pop", "Rock"}

Min(a, b) == IF a <= b THEN a ELSE b

Max(a, b) == IF a >= b THEN a ELSE b

\* str.lower() on the vocabulary of the model.
Lower(s) ==
    CASE s = "Happy" -> "happy"
      [] s = "Sad" -> "sad"
      [] s = "Joyful" -> "joyful"
      [] s = "Fast" -> "fast"
      [] OTHER -> s

\* str.title() on the genre vocabulary of the model.
Title(s) ==
    CASE s = "pop" -> "Pop"
      [] s = "rock" -> "Rock"
      [] s = "jazz" -> "Jazz"
      [] OTHER -> s

\* ------------------------------------------------------------------- Song

\* Song.__init__: every argument is stored as given; play count and rating
\* start at 0.
SongInit(song_id, title, artist, file_path, mood_tags, tempo, genre, duration) ==
    [song_id |-> song_id, title |-> title, artist |-> artist,
     file_path |-> file_path, mood_tags |-> mood_tags, tempo |-> tempo,
     genre |-> genre, duration |-> duration, play_count |-> 0, rating |-> 0]

\* Song.__init__ for the scorers and the recommenders, which look at the
\* tags, the tempo, the genre and the rating only.
Song(mood_tags, tempo, genre) ==
    SongInit("s0", "Untitled", "Unknown Artist", "s0.mp3", mood_tags, tempo, genre, 0)

\* Variant of increment_play_count that counts every play twice.
increment_play_count_twice(song) == [song EXCEPT !.play_count = @ + 2]

\* Song.increment_play_count.
increment_play_count(song) == [song EXCEPT !.play_count = @ + 1]

\* Song.to_dict: the dict with the ten keys, each holding the attribute.
to_dict(song) ==
    [song_id |-> song.song_id, title |-> song.title, artist |-> song.artist,
     file_path |-> song.file_path, mood_tags |-> song.mood_tags,
     tempo |-> song.tempo, genre |-> song.genre, duration |-> song.duration,
     play_count |-> song.play_count, rating |-> song.rating]

\* The Song that load_songs_from_json constructs from one dict of the JSON
\* file: the constructor is handed song_id, title, artist, file_path,
\* mood_tags, tempo, genre (default 'Unknown') and duration (default 0).
song_from_dict(song_data) ==
    SongInit(song_data.song_id, song_data.title, song_data.artist,
             song_data.file_path, song_data.mood_tags, song_data.tempo,
             IF "genre" \in DOMAIN song_data THEN song_data.genre ELSE "Unknown",
             IF "duration" \in DOMAIN song_data THEN song_data.duration ELSE 0)

\* Variant of the condition without the upper limit.
RatingValid_no_upper(rating) == 0 <= rating

\* The condition of Song.set_rating: 0.0 <= rating <= 5.0.
RatingValid(rating) == 0 <= rating /\ rating <= 50

\* ---------------------------------------------------------------- Emotion

\* Emotion._validate_intensity for an int argument, which int() returns
\* unchanged: 1..10 is kept, anything else becomes 5.
validate_intensity(intensity) ==
    IF 1 <= intensity /\ intensity <= 10 THEN intensity ELSE 5

\* A Python value handed over as an intensity: an int (n is the number), a
\* float (n is the number in tenths), a str (s is the text) or None.
PyInt(n) == [s |-> "", n |-> n, kind |-> "int"]

PyFloat(tenths) == [s |-> "", n |-> tenths, kind |-> "float"]

PyStr(s) == [s |-> s, n |-> 0, kind |-> "str"]

PyNone == [s |-> "", n |-> 0, kind |-> "none"]

\* int(value): an int is returned as it is, a float is truncated toward
\* zero, a str is parsed as a decimal integer (surrounding blanks allowed),
\* and a str that is no integer or None raises (ok is FALSE).
int_of(v) ==
    CASE v.kind = "int" -> [n |-> v.n, ok |-> TRUE]
      [] v.kind = "float" ->
            [n |-> IF v.n >= 0 THEN v.n \div 10 ELSE -((-v.n) \div 10), ok |-> TRUE]
      [] v.kind = "str" /\ v.s \in {"7", " 7 "} -> [n |-> 7, ok |-> TRUE]
      [] v.kind = "str" /\ v.s = "12" -> [n |-> 12, ok |-> TRUE]
      [] OTHER -> [n |-> 0, ok |-> FALSE]

\* Emotion._validate_intensity for any argument: int(intensity), then the
\* range test; 5 when int() raises.
validate_intensity_value(v) ==
    IF int_of(v).ok THEN validate_intensity(int_of(v).n) ELSE 5

\* Emotion.__init__ and BasicEmotion.__init__ as a mood record under
\* observation: no secondary emotion.
EmotionInit(emotion_type, v) ==
    [intensity |-> validate_intensity_value(v),
     emotion_type |-> Lower(emotion_type), is_complex |-> FALSE,
     secondary_emotion |-> "", secondary_intensity |-> 0]

\* ComplexEmotion.__init__, with primary intensity v and secondary
\* intensity w.
ComplexEmotionInit(primary_emotion, secondary_emotion, v, w) ==
    [intensity |-> validate_intensity_value(v),
     emotion_type |-> Lower(primary_emotion), is_complex |-> TRUE,
     secondary_emotion |-> Lower(secondary_emotion),
     secondary_intensity |-> validate_intensity_value(w)]

\* Emotion.set_intensity.
set_intensity(e, v) == [e EXCEPT !.intensity = validate_intensity_value(v)]

\* Emotion.__init__ (BasicEmotion calls it unchanged).
Emotion(emotion_type, intensity) ==
    [intensity |-> validate_intensity(intensity),
     emotion_type |-> Lower(emotion_type)]

\* The fixed synonym table of Emotion.matches_mood_tag.
synonyms ==
    [k \in {"happy", "sad", "calm", "energetic", "stressed", "tired", "angry", "bored"} |->
        CASE k = "happy" -> {"joyful", "cheerful", "upbeat", "positive"}
          [] k = "sad" -> {"melancholic", "emotional", "heartbreak", "lonely", "grief"}
          [] k = "calm" -> {"relaxed", "peaceful", "meditation", "sleep", "focus"}
          [] k = "energetic" -> {"motivated", "active", "workout", "exercise", "pump"}
          [] k = "stressed" -> {"anxious", "tense", "worried"}
          [] k = "tired" -> {"exhausted", "sleepy", "drowsy"}
          [] k = "angry" -> {"frustrated", "irritated", "mad"}
          [] k = "bored" -> {"uninterested", "dull"}]

\* Emotion.matches_mood_tag: direct match, or a synonym in either direction.
\* No recommender calls it.
matches_mood_tag(emotion, tag0) ==
    LET tag == Lower(tag0)
        e == Lower(emotion.emotion_type)
    IN  \/ tag = e
        \/ (e \in DOMAIN synonyms /\ tag \in synonyms[e])
        \/ \E key \in DOMAIN synonyms : tag = key /\ e \in synonyms[key]

\* Variant of matches_emotion that goes through Emotion.matches_mood_tag.
matches_emotion_synonyms(song, emotion) ==
    \E tag \in song.mood_tags : matches_mood_tag(emotion, tag)

\* Song.matches_emotion: the lower-cased emotion type is one of the stored
\* tags, compared as stored.
matches_emotion(song, emotion) ==
    Lower(emotion.emotion_type) \in song.mood_tags

\* int(rating * 6) for a rating held in tenths.
rating_points(rating) == (rating * 6) \div 10

\* Variant of calculate_match_score that subtracts the rating bonus.
calculate_match_score_minus(song, emotion) ==
    LET emotion_type == Lower(emotion.emotion_type)
        intensity == emotion.intensity
        s0 == IF emotion_type \in song.mood_tags THEN 50 ELSE 0
        s1 == IF intensity >= 7 /\ song.tempo = "fast" THEN s0 + 20
              ELSE IF 4 <= intensity /\ intensity <= 6 /\ song.tempo = "medium" THEN s0 + 20
              ELSE IF intensity <= 3 /\ song.tempo = "slow" THEN s0 + 20
              ELSE s0
        s2 == s1 - rating_points(song.rating)
    IN  Min(s2, 100)

\* Variant of calculate_match_score whose fast band starts above 7.
calculate_match_score_gt7(song, emotion) ==
    LET emotion_type == Lower(emotion.emotion_type)
        intensity == emotion.intensity
        s0 == IF emotion_type \in song.mood_tags THEN 50 ELSE 0
        s1 == IF intensity > 7 /\ song.tempo = "fast" THEN s0 + 20
              ELSE IF 4 <= intensity /\ intensity <= 6 /\ song.tempo = "medium" THEN s0 + 20
              ELSE IF intensity <= 3 /\ song.tempo = "slow" THEN s0 + 20
              ELSE s0
        s2 == s1 + rating_points(song.rating)
    IN  Min(s2, 100)

\* Song.calculate_match_score.
calculate_match_score(song, emotion) ==
    LET emotion_type == Lower(emotion.emotion_type)
        intensity == emotion.intensity
        s0 == IF emotion_type \in song.mood_tags THEN 50 ELSE 0
        s1 == IF intensity >= 7 /\ song.tempo = "fast" THEN s0 + 20
              ELSE IF 4 <= intensity /\ intensity <= 6 /\ song.tempo = "medium" THEN s0 + 20
              ELSE IF intensity <= 3 /\ song.tempo = "slow" THEN s0 + 20
              ELSE s0
        s2 == s1 + rating_points(song.rating)
    IN  Min(s2, 100)

\* ------------------------------------------------------------------- User

\* The keys of preferences['listening_hours'].
TimesOfDay == {"morning", "afternoon", "evening", "night"}

\* User.__init__: no favorite genres, preferred tempo 'medium', an all-zero
\* listening-hours histogram and an empty mood history.
NewUser ==
    [favorite_genres |-> {}, preferred_tempo |-> "medium",
     listening_hours |-> [t \in TimesOfDay |-> 0],
     mood_history |-> <<>>]

\* Variant of _get_time_of_day whose morning includes 12 o'clock.
get_time_of_day_le(hour) ==
    IF 5 <= hour /\ hour <= 12 THEN "morning"
    ELSE IF 12 <= hour /\ hour < 17 THEN "afternoon"
    ELSE IF 17 <= hour /\ hour < 21 THEN "evening"
    ELSE "night"

\* User._get_time_of_day, of the timestamp's hour.
get_time_of_day(hour) ==
    IF 5 <= hour /\ hour < 12 THEN "morning"
    ELSE IF 12 <= hour /\ hour < 17 THEN "afternoon"
    ELSE IF 17 <= hour /\ hour < 21 THEN "evening"
    ELSE "night"

\* User.record_mood(emotion, playlist_id, timestamp); the timestamp is held
\* as its hour, and a missing one is datetime.now(), any hour.
record_mood(u, emotion, playlist_id, hour) ==
    LET mood_record ==
            [intensity |-> emotion.intensity,
             emotion_type |-> emotion.emotion_type,
             playlist_id |-> playlist_id, timestamp |-> hour,
             time_of_day |-> get_time_of_day(hour)]
    IN  [u EXCEPT !.mood_history = Append(@, mood_record),
                  !.listening_hours[mood_record.time_of_day] = @ + 1]

\* User.clear_mood_history: the history only.
clear_mood_history(u) == [u EXCEPT !.mood_history = <<>>]

\* A dict handed over as an argument: items maps its keys to their values.
PyDict(items) == [s |-> "", n |-> 0, kind |-> "dict", items |-> items]

\* The keys of the preferences dict that the profile reads.
PreferenceKeys == {"favorite_genres", "preferred_tempo", "listening_hours"}

\* User.set_preferences(preferences): dict.update with the argument when it
\* is a dict, each given key taking the given value as it is; any other
\* argument is ignored.
set_preferences(u, preferences) ==
    IF preferences.kind = "dict"
    THEN [k \in DOMAIN u |->
             IF k \in PreferenceKeys /\ k \in DOMAIN preferences.items
             THEN preferences.items[k] ELSE u[k]]
    ELSE u

\* User.remove_favorite_genre(genre).
remove_favorite_genre(u, genre) ==
    [u EXCEPT !.favorite_genres = @ \ {Title(genre)}]

\* The dict emotion_counts of get_mood_statistics after the loop over the
\* history, as its items in insertion order: <<emotion type, count>>.
RECURSIVE emotion_counts(_)
emotion_counts(history) ==
    IF history = <<>> THEN <<>>
    ELSE LET counts == emotion_counts(SubSeq(history, 1, Len(history) - 1))
             emotion == history[Len(history)].emotion_type
         IN  IF \E k \in DOMAIN counts : counts[k][1] = emotion
             THEN [k \in DOMAIN counts |->
                      IF counts[k][1] = emotion
                      THEN <<emotion, counts[k][2] + 1>>
                      ELSE counts[k]]
             ELSE Append(counts, <<emotion, 1>>)

\* total_intensity of get_mood_statistics after the loop.
RECURSIVE total_intensity(_)
total_intensity(history) ==
    IF history = <<>> THEN 0
    ELSE history[1].intensity + total_intensity(Tail(history))

\* Variant of max(items, key=count) that returns the last maximal item.
max_by_count_last(items) ==
    items[CHOOSE k \in DOMAIN items :
              /\ \A j \in DOMAIN items : items[j][2] <= items[k][2]
              /\ \A j \in DOMAIN items : j > k => items[j][2] < items[k][2]]

\* max(items, key=lambda x: x[1]) over a non-empty list of pairs: the first
\* item whose count is maximal.
max_by_count(items) ==
    items[CHOOSE k \in DOMAIN items :
              /\ \A j \in DOMAIN items : items[j][2] <= items[k][2]
              /\ \A j \in DOMAIN items : j < k => items[j][2] < items[k][2]]

\* preferences['listening_hours'].items(), in the dict's insertion order.
listening_hours_items(u) ==
    << <<"morning", u.listening_hours["morning"]>>,
       <<"afternoon", u.listening_hours["afternoon"]>>,
       <<"evening", u.listening_hours["evening"]>>,
       <<"night", u.listening_hours["night"]>> >>

\* User._get_favorite_listening_time.
get_favorite_listening_time(u) ==
    IF u.listening_hours["morning"] + u.listening_hours["afternoon"]
       + u.listening_hours["evening"] + u.listening_hours["night"] = 0
    THEN "unknown"
    ELSE max_by_count(listening_hours_items(u))[1]

\* round(total / n, 2) in hundredths, for the small n of the model, where
\* total / n never lies half-way between two hundredths.
round2(total, n) == (200 * total + n) \div (2 * n)

\* The dict a statistics call returns: keys is the set of keys it has; a
\* field whose key is missing holds the filler of NoStats; None is "".
NoStats ==
    [keys |-> {}, total_records |-> 0, most_common_mood |-> "",
     most_common_count |-> 0, average_intensity |-> 0,
     mood_distribution |-> <<>>, favorite_time |-> ""]

\* User.get_mood_statistics.
get_mood_statistics(u) ==
    IF u.mood_history = <<>>
    THEN [NoStats EXCEPT
             !.keys = {"total_records", "most_common_mood",
                       "average_intensity", "mood_distribution"}]
    ELSE [keys |-> {"total_records", "most_common_mood", "most_common_count",
                    "average_intensity", "mood_distribution", "favorite_time"},
          total_records |-> Len(u.mood_history),
          most_common_mood |-> max_by_count(emotion_counts(u.mood_history))[1],
          most_common_count |-> max_by_count(emotion_counts(u.mood_history))[2],
          average_intensity |->
              round2(total_intensity(u.mood_history), Len(u.mood_history)),
          mood_distribution |-> emotion_counts(u.mood_history),
          favorite_time |-> get_favorite_listening_time(u)]

\* ----------------------------------------------------- SmartRecommender

\* Variant of _calculate_advanced_score whose rating term is int(rating * 6).
calculate_advanced_score_floor6(song, emotion, u) ==
    LET base_score == calculate_match_score(song, emotion)
        genre_bonus == IF song.genre \in u.favorite_genres THEN 15 ELSE 0
        tempo_bonus == IF song.tempo = u.preferred_tempo THEN 10 ELSE 0
        total == base_score + genre_bonus + tempo_bonus + rating_points(song.rating)
    IN  10 * Max(0, Min(100, total))

\* SmartRecommender._calculate_advanced_score, in tenths of a point:
\* rating * 5 is (rating in tenths) * 5 tenths; recent_penalty is always 0.
calculate_advanced_score(song, emotion, u) ==
    LET base_score == calculate_match_score(song, emotion)
        genre_bonus == IF song.genre \in u.favorite_genres THEN 15 ELSE 0
        tempo_bonus == IF song.tempo = u.preferred_tempo THEN 10 ELSE 0
        rating_bonus == song.rating * 5
        recent_penalty == 0
        total_score == 10 * (base_score + genre_bonus + tempo_bonus)
                       + rating_bonus - 10 * recent_penalty
    IN  Max(0, Min(1000, total_score))

\* ------------------------------------------------- RecommendationEngine

Range(s) == {s[i] : i \in DOMAIN s}

\* Variant of update_database that ignores an empty list.
update_database_skip_empty(database, song_list) ==
    IF song_list = <<>> THEN database ELSE song_list

\* RecommendationEngine.update_database: the new _song_database.
update_database(database, song_list) == song_list

\* Variant of database_after whose fallback works on the database list
\* itself and sorts it in place.
database_after_in_place(database, matching_songs, sorted_songs) ==
    IF matching_songs = <<>> THEN sorted_songs ELSE database

\* The list _song_database after recommend_for_emotion: the filter and the
\* sort build new lists and the fallback works on a copy, so the list holds
\* the same songs in the same order.
database_after(database, matching_songs, sorted_songs) == database

\* RecommendationEngine._filter_by_mood: the songs of the list that match,
\* in the list's order.
RECURSIVE filter_by_mood(_, _, _)
filter_by_mood(emotion, ids, heap) ==
    IF ids = <<>> THEN <<>>
    ELSE LET rest == filter_by_mood(emotion, Tail(ids), heap)
         IN  IF matches_emotion(heap[Head(ids)], emotion)
             THEN <<Head(ids)>> \o rest
             ELSE rest

\* Variant of the fallback that keeps an empty filter result.
candidates_no_fallback(matching_songs, database) == matching_songs

\* Variant of the fallback with the test inverted.
candidates_inverted(matching_songs, database) ==
    IF matching_songs # <<>> THEN database ELSE matching_songs

\* `if not matching_songs: matching_songs = self._song_database.copy()`.
candidates_of(matching_songs, database) ==
    IF matching_songs = <<>> THEN database ELSE matching_songs

\* Python's stable sort with reverse=True: descending by key, elements with
\* equal keys in their original order.  Each element is inserted behind
\* every element whose key is at least its own.
RECURSIVE insert_desc(_, _, _)
insert_desc(s, x, key) ==
    IF s = <<>> THEN <<x>>
    ELSE IF key[Head(s)] >= key[x]
         THEN <<Head(s)>> \o insert_desc(Tail(s), x, key)
         ELSE <<x>> \o s

\* Variant of the sort that puts an element before its equals.
RECURSIVE insert_desc_unstable(_, _, _)
insert_desc_unstable(s, x, key) ==
    IF s = <<>> THEN <<x>>
    ELSE IF key[Head(s)] > key[x]
         THEN <<Head(s)>> \o insert_desc_unstable(Tail(s), x, key)
         ELSE <<x>> \o s

RECURSIVE sorted_desc_unstable(_, _)
sorted_desc_unstable(ids, key) ==
    IF ids = <<>> THEN <<>>
    ELSE insert_desc_unstable(sorted_desc_unstable(SubSeq(ids, 1, Len(ids) - 1), key),
                              ids[Len(ids)], key)

RECURSIVE sorted_desc(_, _)
sorted_desc(ids, key) ==
    IF ids = <<>> THEN <<>>
    ELSE insert_desc(sorted_desc(SubSeq(ids, 1, Len(ids) - 1), key),
                     ids[Len(ids)], key)

\* Variant of _sort_by_score on the unstable sort.
sort_by_score_unstable(ids, emotion, heap) ==
    sorted_desc_unstable(ids, [i \in DOMAIN heap |-> calculate_match_score(heap[i], emotion)])

\* RecommendationEngine._sort_by_score.
sort_by_score(ids, emotion, heap) ==
    sorted_desc(ids, [i \in DOMAIN heap |-> calculate_match_score(heap[i], emotion)])

\* Steps 2 and 3 of SmartRecommender.recommend_for_emotion: score each
\* candidate, then scored_songs.sort(key=score, reverse=True).
sort_by_advanced_score(ids, emotion, u, heap) ==
    sorted_desc(ids, [i \in DOMAIN heap |-> calculate_advanced_score(heap[i], emotion, u)])

\* The Python slice s[:count]: the first count elements, and for a negative
\* count all but the last -count elements.
slice_to(s, count) ==
    IF count >= 0
    THEN SubSeq(s, 1, Min(count, Len(s)))
    ELSE SubSeq(s, 1, Max(0, Len(s) + count))

\* First loop of SmartRecommender._select_with_diversity.
RECURSIVE first_pass(_, _, _, _, _)
first_pass(rest, selected, genres_used, count, heap) ==
    IF rest = <<>> \/ Len(selected) >= count THEN selected
    ELSE LET genre == heap[Head(rest)].genre
         IN  IF genre \notin genres_used \/ Cardinality(genres_used) >= 3
             THEN first_pass(Tail(rest), Append(selected, Head(rest)),
                             genres_used \cup {genre}, count, heap)
             ELSE first_pass(Tail(rest), selected, genres_used, count, heap)

\* Second loop of SmartRecommender._select_with_diversity.
RECURSIVE second_pass(_, _, _)
second_pass(rest, selected, count) ==
    IF rest = <<>> THEN selected
    ELSE IF Head(rest) \notin Range(selected)
         THEN IF Len(selected) + 1 >= count
              THEN Append(selected, Head(rest))
              ELSE second_pass(Tail(rest), Append(selected, Head(rest)), count)
         ELSE second_pass(Tail(rest), selected, count)

\* Variant of _select_with_diversity that takes the best count tracks.
select_with_diversity_top(scored_songs, count, heap) ==
    slice_to(scored_songs, count)

\* Variant of _select_with_diversity without the second loop.
select_with_diversity_no_fill(scored_songs, count, heap) ==
    first_pass(scored_songs, <<>>, {}, count, heap)

\* SmartRecommender._select_with_diversity.
select_with_diversity(scored_songs, count, heap) ==
    LET selected == first_pass(scored_songs, <<>>, {}, count, heap)
    IN  IF Len(selected) < count
        THEN second_pass(scored_songs, selected, count)
        ELSE selected

\* --------------------------------------------------------------- Playlist

\* Playlist.__init__.
NewPlaylist == [songs |-> <<>>, current_index |-> 0]

\* Variant of add_song that appends without looking.
add_song_always(pl, s) == [pl EXCEPT !.songs = Append(@, s)]

\* Playlist.add_song: appended unless already present.
add_song(pl, s) ==
    IF s \notin Range(pl.songs) THEN [pl EXCEPT !.songs = Append(@, s)] ELSE pl

\* Playlist.add_songs.
RECURSIVE add_songs(_, _)
add_songs(pl, ids) ==
    IF ids = <<>> THEN pl ELSE add_songs(add_song(pl, Head(ids)), Tail(ids))

\* Playlist.get_current_song: the song under the cursor, 0 for None.  The
\* cursor counts from 0 as in the code, sequences count from 1.
get_current_song(pl) ==
    IF 0 <= pl.current_index /\ pl.current_index < Len(pl.songs)
    THEN pl.songs[pl.current_index + 1]
    ELSE 0

\* Variant of the condition that lets the length through.
IndexValid_inclusive(pl, index) == 0 <= index /\ index <= Len(pl.songs)

\* The condition of Playlist.set_current_index: 0 <= index < len(songs).
IndexValid(pl, index) == 0 <= index /\ index < Len(pl.songs)

\* list.pop(i) for 0 <= i < len: the list without its element at i.
pop(s, i) == SubSeq(s, 1, i) \o SubSeq(s, i + 2, Len(s))

\* Variant of the adjustment that leaves the cursor where it was.
adjust_index_none(new_songs, current_index) == current_index

\* `if current_index >= len(songs) and songs: current_index = len(songs) - 1`
\* after a pop, in remove_song and remove_song_at_index.
adjust_index(new_songs, current_index) ==
    IF current_index >= Len(new_songs) /\ new_songs # <<>>
    THEN Len(new_songs) - 1
    ELSE current_index

\* The index of the first song of the playlist with this id, -1 if none.
index_of_id(pl, song_id, heap) ==
    IF \E i \in DOMAIN pl.songs : heap[pl.songs[i]].song_id = song_id
    THEN (CHOOSE i \in DOMAIN pl.songs :
              /\ heap[pl.songs[i]].song_id = song_id
              /\ \A j \in 1..(i - 1) : heap[pl.songs[j]].song_id # song_id) - 1
    ELSE -1

\* Playlist.remove_song_at_index.
remove_song_at_index(pl, index) ==
    IF 0 <= index /\ index < Len(pl.songs)
    THEN [songs |-> pop(pl.songs, index),
          current_index |-> adjust_index(pop(pl.songs, index), pl.current_index)]
    ELSE pl

\* Playlist.remove_song: the first song with this id is removed.
remove_song(pl, song_id, heap) ==
    remove_song_at_index(pl, index_of_id(pl, song_id, heap))

\* Playlist.clear.
clear(pl) == [songs |-> <<>>, current_index |-> 0]

\* Variant of next_song that wraps around to the first track.
next_song_wrap(pl) ==
    IF pl.current_index < Len(pl.songs) - 1
    THEN [pl EXCEPT !.current_index = @ + 1]
    ELSE [pl EXCEPT !.current_index = 0]

\* Playlist.next_song.
next_song(pl) ==
    IF pl.current_index < Len(pl.songs) - 1
    THEN [pl EXCEPT !.current_index = @ + 1]
    ELSE pl

\* Playlist.previous_song.
previous_song(pl) ==
    IF pl.current_index > 0
    THEN [pl EXCEPT !.current_index = @ - 1]
    ELSE pl

\* Playlist.reset_position.
reset_position(pl) == [pl EXCEPT !.current_index = 0]

\* The outcomes of random.shuffle(songs): every ordering of the list.
shuffles(s) ==
    {t \in [DOMAIN s -> Range(s)] : \A x \in Range(s) : \E k \in DOMAIN t : t[k] = x}

\* Python's order on the titles and artist names of the model (code points:
\* upper case before lower case).
StrRank(str) ==
    CASE str = "Alpha" -> 1
      [] str = "Beta" -> 2
      [] str = "Unknown Artist" -> 3
      [] str = "Untitled" -> 4
      [] str = "alpha" -> 5
      [] OTHER -> 0

\* Python's stable sort: ascending by key, elements with equal keys in
\* their original order.  Each element is inserted behind every element
\* whose key is at most its own.
RECURSIVE insert_asc(_, _, _)
insert_asc(s, x, key) ==
    IF s = <<>> THEN <<x>>
    ELSE IF key[Head(s)] <= key[x]
         THEN <<Head(s)>> \o insert_asc(Tail(s), x, key)
         ELSE <<x>> \o s

RECURSIVE sorted_asc(_, _)
sorted_asc(ids, key) ==
    IF ids = <<>> THEN <<>>
    ELSE insert_asc(sorted_asc(SubSeq(ids, 1, Len(ids) - 1), key),
                    ids[Len(ids)], key)

\* Playlist.sort_by_title.
sort_by_title(pl, heap) ==
    [songs |-> sorted_asc(pl.songs, [i \in DOMAIN heap |-> StrRank(heap[i].title)]),
     current_index |-> 0]

\* Playlist.sort_by_artist.
sort_by_artist(pl, heap) ==
    [songs |-> sorted_asc(pl.songs, [i \in DOMAIN heap |-> StrRank(heap[i].artist)]),
     current_index |-> 0]

\* Variant of sort_by_rating on the unstable sort.
sort_by_rating_unstable(pl, reverse, heap) ==
    [songs |-> IF reverse
               THEN sorted_desc_unstable(pl.songs, [i \in DOMAIN heap |-> heap[i].rating])
               ELSE sorted_asc(pl.songs, [i \in DOMAIN heap |-> heap[i].rating]),
     current_index |-> 0]

\* Playlist.sort_by_rating(reverse), highest first when reverse.
sort_by_rating(pl, reverse, heap) ==
    [songs |-> IF reverse
               THEN sorted_desc(pl.songs, [i \in DOMAIN heap |-> heap[i].rating])
               ELSE sorted_asc(pl.songs, [i \in DOMAIN heap |-> heap[i].rating]),
     current_index |-> 0]

\* Playlist.sort_by_duration.
sort_by_duration(pl, heap) ==
    [songs |-> sorted_asc(pl.songs, [i \in DOMAIN heap |-> heap[i].duration]),
     current_index |-> 0]

\* ------------------------------------------------------------ MusicPlayer

\* MusicPlayer.__init__: no current song (0), no loaded playlist (0), not
\* playing and not paused.  current_playlist is 1 when the player holds the
\* Playlist object `playlist`.  The volume and the playback position are
\* pygame readings that no operation branches on; they are not held.
NewMusicPlayer ==
    [current_song |-> 0, current_playlist |-> 0,
     is_playing |-> FALSE, is_paused |-> FALSE]

\* What a play call meets: the file is there and pygame loads and starts it
\* ("ok"), os.path.exists is False ("missing"), or pygame.mixer.music.load
\* or play raises ("error").
PlayOutcomes == {"ok", "missing", "error"}

\* MusicPlayer.play(song) on song i of the heap: the player and the heap
\* after the call and the returned bool.
play(p, heap, i, outcome) ==
    CASE outcome = "missing" -> [songs |-> heap, player |-> p, value |-> 0]
      [] outcome = "error" ->
            [songs |-> heap, player |-> [p EXCEPT !.is_playing = FALSE],
             value |-> 0]
      [] OTHER ->
            [songs |-> [heap EXCEPT ![i] = increment_play_count(@)],
             player |-> [p EXCEPT !.current_song = i, !.is_playing = TRUE,
                                  !.is_paused = FALSE],
             value |-> 1]

\* The test of MusicPlayer.pause.
can_pause(p) == p.is_playing /\ ~p.is_paused

\* MusicPlayer.pause.
pause(p) == IF can_pause(p) THEN [p EXCEPT !.is_paused = TRUE] ELSE p

\* MusicPlayer.resume.
resume(p) == IF p.is_paused THEN [p EXCEPT !.is_paused = FALSE] ELSE p

\* The test of MusicPlayer.stop.
can_stop(p) == p.is_playing \/ p.is_paused

\* MusicPlayer.stop.
stop(p) ==
    IF can_stop(p) THEN [p EXCEPT !.is_playing = FALSE, !.is_paused = FALSE]
    ELSE p

\* MusicPlayer.toggle_play_pause: resume when paused, else pause when
\* playing.
toggle_play_pause(p) ==
    IF p.is_paused THEN resume(p)
    ELSE IF p.is_playing THEN pause(p)
    ELSE p

\* The test of MusicPlayer.load_playlist: the playlist is truthy (its
\* __len__ is not 0) and not empty.
can_load(pl) == Len(pl.songs) # 0

\* The test `if self.__current_playlist:` of next, previous and
\* play_song_at_index: a playlist is loaded and its __len__ is not 0.
has_playlist(p, pl) == p.current_playlist # 0 /\ Len(pl.songs) # 0

\* ------------------------------------------------------------ call record

NoEmotion == [intensity |-> 0, emotion_type |-> ""]

\* What the last call was and what it produced: the song and emotion it was
\* given, count, the filter's output (matching), the candidates after the
\* fallback, the candidates in score order (sorted), the returned number
\* (value) and whether it raised; for the Playlist and User operations the
\* arguments of the call (arg), and for the Playlist operations that move
\* or test the cursor its value before the call (cursor).  A returned song
\* is its id, None is 0, True is 1 and False is 0.  stats is the dict a
\* statistics call returned, data the dict a to_dict call returned and loaded
\* the Song the loader constructed, each as a list of one item (<<>> if none).
NoRet ==
    [song |-> 0, emotion |-> NoEmotion, count |-> 0, value |-> 0,
     op |-> "init", matching |-> <<>>, candidates |-> <<>>, sorted |-> <<>>,
     raised |-> FALSE, arg |-> <<>>, cursor |-> 0, stats |-> NoStats,
     data |-> <<>>, loaded |-> <<>>]

\* ---------------------------------------------------------------- actions

\* Song.set_rating(rating) on song i.
SetRating(i, rating) ==
    /\ i \in DOMAIN songs
    /\ IF RatingValid(rating)
       THEN /\ songs' = [songs EXCEPT ![i].rating = rating]
            /\ ret' = [NoRet EXCEPT !.op = "set_rating", !.song = i, !.value = rating]
       ELSE /\ songs' = songs
            /\ ret' = [NoRet EXCEPT !.op = "set_rating", !.song = i, !.value = rating,
                                    !.raised = TRUE]
    /\ UNCHANGED <<song_database, catalog, user, playlist, mood, player>>

\* Song.add_mood_tag(tag) on song i.
AddMoodTag(i, tag) ==
    /\ i \in DOMAIN songs
    /\ songs' = [songs EXCEPT ![i].mood_tags = @ \cup {Lower(tag)}]
    /\ ret' = [NoRet EXCEPT !.op = "add_mood_tag", !.song = i]
    /\ UNCHANGED <<song_database, catalog, user, playlist, mood, player>>

\* User.add_favorite_genre(genre).
AddFavoriteGenre(genre) ==
    /\ user' = [user EXCEPT !.favorite_genres = @ \cup {Title(genre)}]
    /\ ret' = [NoRet EXCEPT !.op = "add_favorite_genre"]
    /\ UNCHANGED <<songs, song_database, catalog, playlist, mood, player>>

\* User.set_preferred_tempo(tempo).
SetPreferredTempo(tempo) ==
    /\ IF Lower(tempo) \in Tempos
       THEN /\ user' = [user EXCEPT !.preferred_tempo = Lower(tempo)]
            /\ ret' = [NoRet EXCEPT !.op = "set_preferred_tempo", !.arg = <<tempo>>]
       ELSE /\ user' = user
            /\ ret' = [NoRet EXCEPT !.op = "set_preferred_tempo", !.arg = <<tempo>>,
                                    !.raised = TRUE]
    /\ UNCHANGED <<songs, song_database, catalog, playlist, mood, player>>

\* song.calculate_match_score(emotion) on song i.
CalculateMatchScore(i, emotion) ==
    /\ i \in DOMAIN songs
    /\ ret' = [NoRet EXCEPT !.op = "calculate_match_score", !.song = i,
                            !.emotion = emotion,
                            !.value = calculate_match_score(songs[i], emotion)]
    /\ UNCHANGED <<songs, song_database, catalog, user, playlist, mood, player>>

\* SmartRecommender._calculate_advanced_score(song, emotion, user) on song i.
CalculateAdvancedScore(i, emotion) ==
    /\ i \in DOMAIN songs
    /\ ret' = [NoRet EXCEPT !.op = "calculate_advanced_score", !.song = i,
                            !.emotion = emotion,
                            !.value = calculate_advanced_score(songs[i], emotion, user)]
    /\ UNCHANGED <<songs, song_database, catalog, user, playlist, mood, player>>

\* recommender.update_database(song_list).
UpdateDatabase(song_list) ==
    /\ song_database' = update_database(song_database, song_list)
    /\ catalog' = song_list
    /\ ret' = [NoRet EXCEPT !.op = "update_database"]
    /\ UNCHANGED <<songs, user, playlist, mood, player>>

\* RuleBasedRecommender.recommend_for_emotion(emotion, user, count).
RuleBasedRecommend(emotion, count) ==
    \E matching_songs \in {filter_by_mood(emotion, song_database, songs)} :
    \E candidates \in {candidates_of(matching_songs, song_database)} :
    \E sorted_songs \in {sort_by_score(candidates, emotion, songs)} :
    \E selected_songs \in {slice_to(sorted_songs, count)} :
        /\ playlist' = add_songs(NewPlaylist, selected_songs)
        /\ ret' = [NoRet EXCEPT !.op = "rule_based", !.emotion = emotion,
                                !.count = count, !.matching = matching_songs,
                                !.candidates = candidates, !.sorted = sorted_songs]
        /\ song_database' = database_after(song_database, matching_songs, sorted_songs)
        /\ UNCHANGED <<songs, catalog, user, mood, player>>

\* SmartRecommender.recommend_for_emotion(emotion, user, count).
SmartRecommend(emotion, count) ==
    \E matching_songs \in {filter_by_mood(emotion, song_database, songs)} :
    \E candidates \in {candidates_of(matching_songs, song_database)} :
    \E scored_songs \in {sort_by_advanced_score(candidates, emotion, user, songs)} :
    \E selected_songs \in {select_with_diversity(scored_songs, count, songs)} :
        /\ playlist' = add_songs(NewPlaylist, selected_songs)
        /\ ret' = [NoRet EXCEPT !.op = "smart", !.emotion = emotion,
                                !.count = count, !.matching = matching_songs,
                                !.candidates = candidates, !.sorted = scored_songs]
        /\ song_database' = database_after(song_database, matching_songs, scored_songs)
        /\ UNCHANGED <<songs, catalog, user, mood, player>>

\* user.record_mood(emotion, playlist_id, timestamp).
RecordMood(emotion, playlist_id, hour) ==
    /\ user' = record_mood(user, emotion, playlist_id, hour)
    /\ ret' = [NoRet EXCEPT !.op = "record_mood", !.emotion = emotion,
                            !.arg = <<playlist_id, hour>>]
    /\ UNCHANGED <<songs, song_database, catalog, playlist, mood, player>>

\* user.clear_mood_history().
ClearMoodHistory ==
    /\ user' = clear_mood_history(user)
    /\ ret' = [NoRet EXCEPT !.op = "clear_mood_history"]
    /\ UNCHANGED <<songs, song_database, catalog, playlist, mood, player>>

\* user.get_mood_statistics().
GetMoodStatistics ==
    /\ ret' = [NoRet EXCEPT !.op = "get_mood_statistics",
                            !.stats = get_mood_statistics(user)]
    /\ UNCHANGED <<songs, song_database, catalog, user, playlist, mood, player>>

\* user.set_preferences(preferences).
SetPreferences(preferences) ==
    /\ user' = set_preferences(user, preferences)
    /\ ret' = [NoRet EXCEPT !.op = "set_preferences", !.arg = <<preferences>>]
    /\ UNCHANGED <<songs, song_database, catalog, playlist, mood, player>>

\* user.remove_favorite_genre(genre).
RemoveFavoriteGenre(genre) ==
    /\ user' = remove_favorite_genre(user, genre)
    /\ ret' = [NoRet EXCEPT !.op = "remove_favorite_genre", !.arg = <<genre>>]
    /\ UNCHANGED <<songs, song_database, catalog, playlist, mood, player>>

\* The frame of every Emotion operation.
EmotionFrame == UNCHANGED <<songs, song_database, catalog, user, playlist, player>>

\* Emotion(emotion_id, emotion_type, intensity) or BasicEmotion(...).
NewEmotion(emotion_type, v) ==
    /\ mood' = EmotionInit(emotion_type, v)
    /\ ret' = [NoRet EXCEPT !.op = "Emotion", !.arg = <<v>>]
    /\ EmotionFrame

\* ComplexEmotion(emotion_id, primary, secondary, primary_intensity,
\* secondary_intensity).
NewComplexEmotion(primary_emotion, secondary_emotion, v, w) ==
    /\ mood' = ComplexEmotionInit(primary_emotion, secondary_emotion, v, w)
    /\ ret' = [NoRet EXCEPT !.op = "ComplexEmotion", !.arg = <<v, w>>]
    /\ EmotionFrame

\* emotion.set_intensity(intensity).
SetIntensity(v) ==
    /\ mood' = set_intensity(mood, v)
    /\ ret' = [NoRet EXCEPT !.op = "set_intensity", !.arg = <<v>>]
    /\ EmotionFrame

\* The frame of every Playlist operation.
PlaylistFrame == UNCHANGED <<songs, song_database, catalog, user, mood, player>>

\* The number add_songs returns: the add_song calls that returned True.
RECURSIVE added(_, _)
added(pl, ids) ==
    IF ids = <<>> THEN 0
    ELSE (IF Head(ids) \notin Range(pl.songs) THEN 1 ELSE 0)
         + added(add_song(pl, Head(ids)), Tail(ids))

\* playlist.add_song(song).
AddSong(s) ==
    /\ playlist' = add_song(playlist, s)
    /\ ret' = [NoRet EXCEPT !.op = "add_song", !.arg = <<s>>,
                            !.value = added(playlist, <<s>>)]
    /\ PlaylistFrame

\* playlist.add_songs(songs).
AddSongs(ids) ==
    /\ playlist' = add_songs(playlist, ids)
    /\ ret' = [NoRet EXCEPT !.op = "add_songs", !.arg = <<ids>>,
                            !.value = added(playlist, ids)]
    /\ PlaylistFrame

\* playlist.remove_song(song_id).
RemoveSong(song_id) ==
    /\ playlist' = remove_song(playlist, song_id, songs)
    /\ ret' = [NoRet EXCEPT !.op = "remove_song", !.cursor = playlist.current_index, !.arg = <<song_id>>,
                            !.value = IF index_of_id(playlist, song_id, songs) >= 0
                                      THEN 1 ELSE 0]
    /\ PlaylistFrame

\* playlist.remove_song_at_index(index).
RemoveSongAtIndex(index) ==
    /\ playlist' = remove_song_at_index(playlist, index)
    /\ ret' = [NoRet EXCEPT !.op = "remove_song_at_index", !.cursor = playlist.current_index, !.arg = <<index>>,
                            !.value = IF IndexValid(playlist, index) THEN 1 ELSE 0]
    /\ PlaylistFrame

\* playlist.clear().
Clear ==
    /\ playlist' = clear(playlist)
    /\ ret' = [NoRet EXCEPT !.op = "clear"]
    /\ PlaylistFrame

\* playlist.next_song(): the new current song, None when the cursor stays.
NextSong ==
    /\ playlist' = next_song(playlist)
    /\ ret' = [NoRet EXCEPT !.op = "next_song", !.cursor = playlist.current_index,
                            !.value = IF playlist.current_index < Len(playlist.songs) - 1
                                      THEN get_current_song(next_song(playlist))
                                      ELSE 0]
    /\ PlaylistFrame

\* playlist.previous_song(): the new current song, None when the cursor stays.
PreviousSong ==
    /\ playlist' = previous_song(playlist)
    /\ ret' = [NoRet EXCEPT !.op = "previous_song", !.cursor = playlist.current_index,
                            !.value = IF playlist.current_index > 0
                                      THEN get_current_song(previous_song(playlist))
                                      ELSE 0]
    /\ PlaylistFrame

\* playlist.set_current_index(index): ValueError when out of range.
SetCurrentIndex(index) ==
    /\ IF IndexValid(playlist, index)
       THEN /\ playlist' = [playlist EXCEPT !.current_index = index]
            /\ ret' = [NoRet EXCEPT !.op = "set_current_index", !.cursor = playlist.current_index, !.arg = <<index>>]
       ELSE /\ playlist' = playlist
            /\ ret' = [NoRet EXCEPT !.op = "set_current_index", !.cursor = playlist.current_index, !.arg = <<index>>,
                                    !.raised = TRUE]
    /\ PlaylistFrame

\* playlist.reset_position().
ResetPosition ==
    /\ playlist' = reset_position(playlist)
    /\ ret' = [NoRet EXCEPT !.op = "reset_position"]
    /\ PlaylistFrame

\* playlist.shuffle(): nothing happens to an empty playlist.
Shuffle ==
    /\ IF playlist.songs # <<>>
       THEN \E t \in shuffles(playlist.songs) :
                playlist' = [songs |-> t, current_index |-> 0]
       ELSE playlist' = playlist
    /\ ret' = [NoRet EXCEPT !.op = "shuffle"]
    /\ PlaylistFrame

\* playlist.sort_by_title().
SortByTitle ==
    /\ playlist' = sort_by_title(playlist, songs)
    /\ ret' = [NoRet EXCEPT !.op = "sort_by_title"]
    /\ PlaylistFrame

\* playlist.sort_by_artist().
SortByArtist ==
    /\ playlist' = sort_by_artist(playlist, songs)
    /\ ret' = [NoRet EXCEPT !.op = "sort_by_artist"]
    /\ PlaylistFrame

\* playlist.sort_by_rating(reverse).
SortByRating(reverse) ==
    /\ playlist' = sort_by_rating(playlist, reverse, songs)
    /\ ret' = [NoRet EXCEPT !.op = "sort_by_rating", !.arg = <<reverse>>]
    /\ PlaylistFrame

\* playlist.sort_by_duration().
SortByDuration ==
    /\ playlist' = sort_by_duration(playlist, songs)
    /\ ret' = [NoRet EXCEPT !.op = "sort_by_duration"]
    /\ PlaylistFrame

\* The frame of the MusicPlayer operations that touch the player only.
PlayerFrame == UNCHANGED <<songs, song_database, catalog, user, playlist, mood>>

\* player.play(song) on song i.
Play(i, outcome) ==
    /\ i \in DOMAIN songs
    /\ \E r \in {play(player, songs, i, outcome)} :
           /\ player' = r.player
           /\ songs' = r.songs
           /\ ret' = [NoRet EXCEPT !.op = "play", !.song = i, !.value = r.value]
    /\ UNCHANGED <<song_database, catalog, user, playlist, mood>>

\* player.pause().
Pause ==
    /\ player' = pause(player)
    /\ ret' = [NoRet EXCEPT !.op = "pause",
                            !.value = IF can_pause(player) THEN 1 ELSE 0]
    /\ PlayerFrame

\* player.resume().
Resume ==
    /\ player' = resume(player)
    /\ ret' = [NoRet EXCEPT !.op = "resume",
                            !.value = IF player.is_paused THEN 1 ELSE 0]
    /\ PlayerFrame

\* player.stop().
Stop ==
    /\ player' = stop(player)
    /\ ret' = [NoRet EXCEPT !.op = "stop",
                            !.value = IF can_stop(player) THEN 1 ELSE 0]
    /\ PlayerFrame

\* player.toggle_play_pause(): returns the playing flag.
TogglePlayPause ==
    /\ player' = toggle_play_pause(player)
    /\ ret' = [NoRet EXCEPT !.op = "toggle_play_pause",
                            !.value = IF toggle_play_pause(player).is_playing
                                      THEN 1 ELSE 0]
    /\ PlayerFrame

\* player.load_playlist(playlist).
LoadPlaylist ==
    /\ IF can_load(playlist)
       THEN /\ player' = [player EXCEPT !.current_playlist = 1]
            /\ playlist' = reset_position(playlist)
            /\ ret' = [NoRet EXCEPT !.op = "load_playlist", !.value = 1,
                                    !.cursor = playlist.current_index]
       ELSE /\ UNCHANGED <<player, playlist>>
            /\ ret' = [NoRet EXCEPT !.op = "load_playlist",
                                    !.cursor = playlist.current_index]
    /\ UNCHANGED <<songs, song_database, catalog, user, mood>>

\* player.play_playlist(playlist): load_playlist, then play the first song.
PlayPlaylist(outcome) ==
    /\ IF can_load(playlist)
       THEN \E first_song \in {get_current_song(reset_position(playlist))} :
            \E r \in {play([player EXCEPT !.current_playlist = 1], songs,
                           first_song, outcome)} :
                /\ playlist' = reset_position(playlist)
                /\ player' = r.player
                /\ songs' = r.songs
                /\ ret' = [NoRet EXCEPT !.op = "play_playlist",
                                        !.song = first_song, !.value = r.value,
                                        !.cursor = playlist.current_index]
       ELSE /\ UNCHANGED <<player, playlist, songs>>
            /\ ret' = [NoRet EXCEPT !.op = "play_playlist",
                                    !.cursor = playlist.current_index]
    /\ UNCHANGED <<song_database, catalog, user, mood>>

\* player.next(): playlist.next_song(), then play the song it returned.
PlayerNext(outcome) ==
    /\ IF has_playlist(player, playlist)
          /\ playlist.current_index < Len(playlist.songs) - 1
       THEN \E next_song_ \in {get_current_song(next_song(playlist))} :
            \E r \in {play(player, songs, next_song_, outcome)} :
                /\ playlist' = next_song(playlist)
                /\ player' = r.player
                /\ songs' = r.songs
                /\ ret' = [NoRet EXCEPT !.op = "next", !.song = next_song_,
                                        !.value = r.value,
                                        !.cursor = playlist.current_index]
       ELSE /\ playlist' = IF has_playlist(player, playlist)
                           THEN next_song(playlist) ELSE playlist
            /\ UNCHANGED <<player, songs>>
            /\ ret' = [NoRet EXCEPT !.op = "next",
                                    !.cursor = playlist.current_index]
    /\ UNCHANGED <<song_database, catalog, user, mood>>

\* player.previous(): playlist.previous_song(), then play the song it
\* returned.
PlayerPrevious(outcome) ==
    /\ IF has_playlist(player, playlist) /\ playlist.current_index > 0
       THEN \E prev_song \in {get_current_song(previous_song(playlist))} :
            \E r \in {play(player, songs, prev_song, outcome)} :
                /\ playlist' = previous_song(playlist)
                /\ player' = r.player
                /\ songs' = r.songs
                /\ ret' = [NoRet EXCEPT !.op = "previous", !.song = prev_song,
                                        !.value = r.value,
                                        !.cursor = playlist.current_index]
       ELSE /\ playlist' = IF has_playlist(player, playlist)
                           THEN previous_song(playlist) ELSE playlist
            /\ UNCHANGED <<player, songs>>
            /\ ret' = [NoRet EXCEPT !.op = "previous",
                                    !.cursor = playlist.current_index]
    /\ UNCHANGED <<song_database, catalog, user, mood>>

\* song.to_dict() on song i.
ToDict(i) ==
    /\ i \in DOMAIN songs
    /\ ret' = [NoRet EXCEPT !.op = "to_dict", !.song = i,
                            !.data = <<to_dict(songs[i])>>]
    /\ UNCHANGED <<songs, song_database, catalog, user, playlist, mood, player>>

\* The loop body of load_songs_from_json on the dict written for song i:
\* the Song is constructed when the file is there, else the entry is skipped.
LoadSong(i, song_data, exists) ==
    /\ ret' = [NoRet EXCEPT !.op = "load_songs", !.song = i,
                            !.data = <<song_data>>,
                            !.loaded = IF exists THEN <<song_from_dict(song_data)>>
                                       ELSE <<>>]
    /\ UNCHANGED <<songs, song_database, catalog, user, playlist, mood, player>>

\* ------------------------------------------ specification of the scorers

\* One Song as constructed from any tag list, tempo and genre; a fresh User.
InitScore ==
    /\ \E tags \in TagSets, tempo \in Tempos, genre \in GenreInputs :
           songs = <<Song(tags, tempo, genre)>>
    /\ song_database = <<>>
    /\ catalog = <<>>
    /\ user = NewUser
    /\ playlist = NewPlaylist
    /\ mood = NoEmotion
    /\ player = NewMusicPlayer
    /\ ret = NoRet

ScoreSetRating == \E rating \in RatingInputs : SetRating(1, rating)

ScoreAddFavoriteGenre == \E genre \in {"pop"} : AddFavoriteGenre(genre)

ScoreSetPreferredTempo == \E tempo \in {"Fast", "allegro"} : SetPreferredTempo(tempo)

ScoreCalculateMatchScore ==
    \E t \in EmotionTypeInputs, n \in IntensityInputs :
        CalculateMatchScore(1, Emotion(t, n))

ScoreCalculateAdvancedScore ==
    \E t \in EmotionTypeInputs, n \in IntensityInputs :
        CalculateAdvancedScore(1, Emotion(t, n))

NextScore ==
    \/ ScoreSetRating
    \/ ScoreAddFavoriteGenre
    \/ ScoreSetPreferredTempo
    \/ ScoreCalculateMatchScore
    \/ ScoreCalculateAdvancedScore

SpecScore == InitScore /\ [][NextScore]_vars

\* --------------------------------------- specification of the recommenders

\* The (tags, tempo, genre) the loader constructs songs from.
Templates ==
    { [tempo |-> "fast", genre |-> "Pop", tags |-> {"happy"}],
      [tempo |-> "slow", genre |-> "Jazz", tags |-> {"sad"}],
      [tempo |-> "medium", genre |-> "Rock", tags |-> {"joyful"}],
      [tempo |-> "fast", genre |-> "Pop", tags |-> {"Happy"}] }

\* The moods recommend_for_emotion is called with, as (type, intensity)
\* handed to the Emotion constructor.
RecEmotionInputs == {<<"Happy", 8>>, <<"sad", 2>>, <<"calm", 5>>}

\* The counts recommend_for_emotion is called with.
Counts == (-2)..MaxCount

\* The ids 1..n in order.
AllIds(n) == [i \in 1..n |-> i]

\* The loader has constructed between 1 and MaxSongs songs; the recommender
\* and the user are fresh.
Init ==
    /\ \E n \in 1..MaxSongs : \E lib \in [1..n -> Templates] :
           songs = [i \in 1..n |-> Song(lib[i].tags, lib[i].tempo, lib[i].genre)]
    /\ song_database = <<>>
    /\ catalog = <<>>
    /\ user = NewUser
    /\ playlist = NewPlaylist
    /\ mood = NoEmotion
    /\ player = NewMusicPlayer
    /\ ret = NoRet

LoadDatabase == \E l \in {<<>>, AllIds(Len(songs))} : UpdateDatabase(l)

RecommendRuleBased ==
    \E e \in RecEmotionInputs, count \in Counts :
        RuleBasedRecommend(Emotion(e[1], e[2]), count)

RecommendSmart ==
    \E e \in RecEmotionInputs, count \in Counts :
        SmartRecommend(Emotion(e[1], e[2]), count)

Next ==
    \/ LoadDatabase
    \/ RecommendRuleBased
    \/ RecommendSmart

Spec == Init /\ [][Next]_vars

\* ------------------------- specification of the six-track scenario catalog

\* Three happy/medium-tempo tracks and three sad/slow tracks.
ScenarioSongs ==
    << Song({"happy"}, "medium", "Pop"),
       Song({"happy"}, "medium", "Rock"),
       Song({"happy"}, "medium", "Pop"),
       Song({"sad"}, "slow", "Jazz"),
       Song({"sad"}, "slow", "Pop"),
       Song({"sad"}, "slow", "Jazz") >>

\* The ids n..1 in reverse order.
AllIdsReversed(n) == [i \in 1..n |-> n + 1 - i]

InitScenario ==
    /\ songs = ScenarioSongs
    /\ song_database = <<>>
    /\ catalog = <<>>
    /\ user = NewUser
    /\ playlist = NewPlaylist
    /\ mood = NoEmotion
    /\ player = NewMusicPlayer
    /\ ret = NoRet

\* The caller sets the catalog up before it asks for recommendations, as
\* main.py does (load the songs, update_database, then the GUI's requests).
SetUp == ret.op \notin {"rule_based", "smart"}

ScenarioSetRating ==
    /\ SetUp
    /\ \E i \in {1, 2, 3}, rating \in {0, 30, 45} : SetRating(i, rating)

ScenarioAddMoodTag ==
    /\ SetUp
    /\ AddMoodTag(4, "Happy")

ScenarioAddFavoriteGenre ==
    /\ SetUp
    /\ AddFavoriteGenre("pop")

ScenarioLoadDatabase ==
    /\ SetUp
    /\ \E l \in {<<>>, AllIds(Len(songs)), AllIdsReversed(Len(songs))} : UpdateDatabase(l)

NextScenario ==
    \/ ScenarioSetRating
    \/ ScenarioAddMoodTag
    \/ ScenarioAddFavoriteGenre
    \/ ScenarioLoadDatabase
    \/ RecommendRuleBased
    \/ RecommendSmart

SpecScenario == InitScenario /\ [][NextScenario]_vars

\* ------------------------------------------- specification of the playlist

\* The song ids of the songs the loader constructs.
SongId(i) ==
    CASE i = 1 -> "s1" [] i = 2 -> "s2" [] i = 3 -> "s3" [] i = 4 -> "s4"
      [] OTHER -> "s5"

\* The titles, artists and durations of the songs, with repeated values so
\* that every sort meets equal keys.
TrackTitles == <<"Beta", "Alpha", "Beta", "alpha", "Alpha">>

TrackArtists == <<"Beta", "Beta", "Alpha", "Alpha", "Beta">>

TrackDurations == <<200, 180, 200, 180, 240>>

\* The file paths of the songs.
FilePath(i) ==
    CASE i = 1 -> "s1.mp3" [] i = 2 -> "s2.mp3" [] i = 3 -> "s3.mp3"
      [] i = 4 -> "s4.mp3" [] OTHER -> "s5.mp3"

PlaylistTrack(i) ==
    SongInit(SongId(i), TrackTitles[i], TrackArtists[i], FilePath(i), {"happy"},
             "medium", "Pop", TrackDurations[i])

\* ------------------------------------------- specification of the listener

\* The hours of the timestamps: both sides of every bucket limit.
Hours == {4, 5, 11, 12, 16, 17, 20, 21}

\* The record_mood calls: emotion type and intensity as handed to the
\* Emotion constructor, playlist id ("" for None) and hour.
RecordInputs ==
    { <<"Happy", 8, "p1", 4>>, <<"Happy", 8, "p1", 5>>, <<"Happy", 8, "", 12>>,
      <<"Happy", 8, "", 20>>, <<"sad", 2, "", 11>>, <<"sad", 2, "p1", 16>>,
      <<"sad", 2, "", 17>>, <<"sad", 2, "", 21>> }

\* The number of record_mood calls so far.
Recorded(u) ==
    u.listening_hours["morning"] + u.listening_hours["afternoon"]
    + u.listening_hours["evening"] + u.listening_hours["night"]

\* A fresh User.
InitUser ==
    /\ songs = <<>>
    /\ song_database = <<>>
    /\ catalog = <<>>
    /\ user = NewUser
    /\ playlist = NewPlaylist
    /\ mood = NoEmotion
    /\ player = NewMusicPlayer
    /\ ret = NoRet

\* At most MaxRecords moods are recorded in a run.
UserRecordMood ==
    /\ Recorded(user) < MaxRecords
    /\ \E e \in RecordInputs :
           /\ e[4] \in Hours
           /\ RecordMood(Emotion(e[1], e[2]), e[3], e[4])

NextUser ==
    \/ UserRecordMood
    \/ ClearMoodHistory
    \/ GetMoodStatistics

SpecUser == InitUser /\ [][NextUser]_vars

\* ------------------------------------------- specification of the profile

\* The tempos handed to set_preferred_tempo.
TempoInputs == {"Fast", "slow", "allegro"}

\* The arguments handed to set_preferences: dicts with a tempo or a genre
\* list, and a str.
PreferencesInputs ==
    { PyDict([preferred_tempo |-> "fast"]),
      PyDict([preferred_tempo |-> "allegro"]),
      PyDict([favorite_genres |-> {"Jazz"}]),
      PyStr("fast") }

ProfileSetPreferredTempo == \E tempo \in TempoInputs : SetPreferredTempo(tempo)

ProfileSetPreferences ==
    \E preferences \in PreferencesInputs : SetPreferences(preferences)

ProfileAddFavoriteGenre == \E genre \in {"pop", "jazz"} : AddFavoriteGenre(genre)

ProfileRemoveFavoriteGenre == \E genre \in {"pop"} : RemoveFavoriteGenre(genre)

\* At most MaxRecords moods are recorded in a run.
ProfileRecordMood ==
    /\ Recorded(user) < MaxRecords
    /\ \E e \in {<<"Happy", 8, "p1", 11>>, <<"sad", 2, "", 21>>} :
           RecordMood(Emotion(e[1], e[2]), e[3], e[4])

NextProfile ==
    \/ ProfileSetPreferredTempo
    \/ ProfileSetPreferences
    \/ ProfileAddFavoriteGenre
    \/ ProfileRemoveFavoriteGenre
    \/ ProfileRecordMood

SpecProfile == InitUser /\ [][NextProfile]_vars

\* MaxSongs songs are constructed and an empty Playlist.
InitPlaylist ==
    /\ songs = [i \in 1..MaxSongs |-> PlaylistTrack(i)]
    /\ song_database = <<>>
    /\ catalog = <<>>
    /\ user = NewUser
    /\ playlist = NewPlaylist
    /\ mood = NoEmotion
    /\ player = NewMusicPlayer
    /\ ret = NoRet

\* The songs are rated before the playlist is filled.
PlaylistSetRating ==
    /\ ret.op \in {"init", "set_rating"}
    /\ \E i \in 1..2, rating \in {0, 30} : SetRating(i, rating)

PlaylistAddSong == \E s \in DOMAIN songs : AddSong(s)

PlaylistAddSongs ==
    \E ids \in {<<2, 1, 2>>, <<3, 1>>, AllIds(Len(songs))} : AddSongs(ids)

PlaylistRemoveSong ==
    \E song_id \in {SongId(i) : i \in DOMAIN songs} \cup {"s9"} : RemoveSong(song_id)

PlaylistRemoveSongAtIndex ==
    \E index \in (-1)..Len(songs) : RemoveSongAtIndex(index)

PlaylistSetCurrentIndex ==
    \E index \in (-1)..Len(songs) : SetCurrentIndex(index)

PlaylistSortByRating == \E reverse \in BOOLEAN : SortByRating(reverse)

NextPlaylist ==
    \/ PlaylistSetRating
    \/ PlaylistAddSong
    \/ PlaylistAddSongs
    \/ PlaylistRemoveSong
    \/ PlaylistRemoveSongAtIndex
    \/ Clear
    \/ NextSong
    \/ PreviousSong
    \/ PlaylistSetCurrentIndex
    \/ ResetPosition
    \/ Shuffle
    \/ SortByTitle
    \/ SortByArtist
    \/ PlaylistSortByRating
    \/ SortByDuration

SpecPlaylist == InitPlaylist /\ [][NextPlaylist]_vars

\* --------------------------------------------- specification of the player

\* The number of plays that started, over all songs.
RECURSIVE TotalPlays(_)
TotalPlays(heap) ==
    IF heap = <<>> THEN 0 ELSE Head(heap).play_count + TotalPlays(Tail(heap))

\* MaxSongs songs are constructed, an empty Playlist and a MusicPlayer.
InitPlayer ==
    /\ songs = [i \in 1..MaxSongs |-> PlaylistTrack(i)]
    /\ song_database = <<>>
    /\ catalog = <<>>
    /\ user = NewUser
    /\ playlist = NewPlaylist
    /\ mood = NoEmotion
    /\ player = NewMusicPlayer
    /\ ret = NoRet

\* The first song is rated before anything is played.
PlayerSetRating ==
    /\ ret.op \in {"init", "set_rating"}
    /\ \E rating \in {0, 45} : SetRating(1, rating)

\* The playlist is filled once, with every song.
PlayerAddSongs ==
    /\ playlist.songs = <<>>
    /\ AddSongs(AllIds(Len(songs)))

\* Another play may start.
CanPlay == TotalPlays(songs) < MaxPlays

PlayerPlay ==
    /\ CanPlay
    /\ \E i \in {1, Len(songs)}, outcome \in PlayOutcomes : Play(i, outcome)

PlayerPlayPlaylist ==
    /\ CanPlay
    /\ \E outcome \in PlayOutcomes : PlayPlaylist(outcome)

PlayerNextSong ==
    /\ CanPlay
    /\ \E outcome \in PlayOutcomes : PlayerNext(outcome)

PlayerPreviousSong ==
    /\ CanPlay
    /\ \E outcome \in PlayOutcomes : PlayerPrevious(outcome)

PlayerToDict == ToDict(1)

\* The loader reads the dict that to_dict has just written.
PlayerLoadSong ==
    /\ ret.op = "to_dict"
    /\ \E exists \in BOOLEAN : LoadSong(ret.song, ret.data[1], exists)

NextPlayer ==
    \/ PlayerSetRating
    \/ PlayerAddSongs
    \/ PlayerPlay
    \/ Pause
    \/ Resume
    \/ Stop
    \/ TogglePlayPause
    \/ LoadPlaylist
    \/ PlayerPlayPlaylist
    \/ PlayerNextSong
    \/ PlayerPreviousSong
    \/ PlayerToDict
    \/ PlayerLoadSong

SpecPlayer == InitPlayer /\ [][NextPlayer]_vars

\* -------------------------------- specification of the recommended playlist

\* The songs the loader constructs: happy and sad tracks in turn.
CatalogTrack(i) ==
    IF i % 2 = 1 THEN Song({"happy"}, "medium", "Pop")
    ELSE Song({"sad"}, "slow", "Jazz")

InitCatalog ==
    /\ songs = [i \in 1..MaxSongs |-> CatalogTrack(i)]
    /\ song_database = <<>>
    /\ catalog = <<>>
    /\ user = NewUser
    /\ playlist = NewPlaylist
    /\ mood = NoEmotion
    /\ player = NewMusicPlayer
    /\ ret = NoRet

\* The last song is rated before the catalog is handed over.
CatalogSetRating ==
    /\ ret.op \in {"init", "set_rating"}
    /\ \E rating \in {0, 45} : SetRating(Len(songs), rating)

\* The catalog is handed over once.
CatalogLoadDatabase ==
    /\ song_database = <<>>
    /\ UpdateDatabase(AllIds(Len(songs)))

CatalogRemoveSongAtIndex == \E index \in 0..1 : RemoveSongAtIndex(index)

CatalogRemoveSong == \E song_id \in {"s0"} : RemoveSong(song_id)

NextCatalog ==
    \/ CatalogSetRating
    \/ CatalogLoadDatabase
    \/ RecommendRuleBased
    \/ RecommendSmart
    \/ Shuffle
    \/ SortByTitle
    \/ PlaylistSortByRating
    \/ CatalogRemoveSongAtIndex
    \/ CatalogRemoveSong

SpecCatalog == InitCatalog /\ [][NextCatalog]_vars

\* ---------------------------------------- specification of the mood record

\* The values handed over as intensities: ints in and out of 1..10, floats
\* (0.5, 1.0, 7.5, 10.0, 10.5, 10.9, 11.0, -0.5), strings and None.
IntensityValues ==
    {PyInt(n) : n \in {-3, 0, 1, 4, 10, 11}}
    \cup {PyFloat(t) : t \in {-5, 5, 10, 75, 100, 105, 109, 110}}
    \cup {PyStr(str) : str \in {"7", " 7 ", "12", "abc", "10.5"}}
    \cup {PyNone}

\* A mood record has been constructed.
InitEmotion ==
    /\ songs = <<>>
    /\ song_database = <<>>
    /\ catalog = <<>>
    /\ user = NewUser
    /\ playlist = NewPlaylist
    /\ \E v \in IntensityValues : mood = EmotionInit("Happy", v)
    /\ player = NewMusicPlayer
    /\ ret = NoRet

EmotionNew ==
    \E t \in {"Happy", "sad"}, v \in IntensityValues : NewEmotion(t, v)

EmotionNewComplex ==
    \E v, w \in IntensityValues : NewComplexEmotion("happy", "Sad", v, w)

EmotionSetIntensity == \E v \in IntensityValues : SetIntensity(v)

NextEmotion ==
    \/ EmotionNew
    \/ EmotionNewComplex
    \/ EmotionSetIntensity

SpecEmotion == InitEmotion /\ [][NextEmotion]_vars

\* ----------------------------------------------------------------- claims

Recommenders == {"rule_based", "smart"}

\* floor(rating x 6) for a rating held in tenths: the integer k with
\* k <= rating x 6 < k + 1.
FloorRatingTimes6(rating) ==
    CHOOSE k \in 0..30 : 10 * k <= 6 * rating /\ 6 * rating < 10 * (k + 1)

\* The tempo-intensity alignment of the Scorer.
TempoAligned(intensity, tempo) ==
    \/ intensity >= 7 /\ tempo = "fast"
    \/ 4 <= intensity /\ intensity <= 6 /\ tempo = "medium"
    \/ intensity <= 3 /\ tempo = "slow"

\* C1: for every track and every mood, calculate_match_score returns an
\* integer s with 0 <= s <= 100.
C1_ScoreWithinRange ==
    ret.op = "calculate_match_score" => ret.value \in 0..100

\* A top-rated fast track that matches an intense mood scores exactly 100.
C1_Witness ==
    /\ ret.op = "calculate_match_score"
    /\ songs[1].rating = 50
    /\ ret.emotion.emotion_type \in songs[1].mood_tags
    /\ ret.value = 100

\* C2: calculate_match_score equals min(100, B + T + R), B = 50 if the
\* mood's emotion type is among the track's tags else 0, T = 20 if the tempo
\* is aligned with the intensity else 0, R = floor(rating x 6).
C2_ScoreEqualsReference ==
    ret.op = "calculate_match_score" =>
        LET song == songs[ret.song]
            B == IF ret.emotion.emotion_type \in song.mood_tags THEN 50 ELSE 0
            T == IF TempoAligned(ret.emotion.intensity, song.tempo) THEN 20 ELSE 0
            R == FloorRatingTimes6(song.rating)
        IN  ret.value = Min(100, B + T + R)

\* A matching fast track rated 1.7 at intensity 7: 50 + 20 + floor(10.2).
C2_Witness ==
    /\ ret.op = "calculate_match_score"
    /\ songs[1].rating = 17
    /\ songs[1].tempo = "fast"
    /\ ret.emotion.intensity = 7
    /\ ret.emotion.emotion_type \in songs[1].mood_tags
    /\ ret.value = 80

\* C3: with the simple strategy, mood "happy", a catalog holding a track
\* tagged "happy" and a track tagged only "sad", and count >= 1, every track
\* of the playlist has a tag in {happy} + synonyms(happy) and no track of the
\* playlist is tagged only "sad".
C3_HappyPlaylistExcludesSad ==
    ( /\ ret.op = "rule_based"
      /\ ret.emotion.emotion_type = "happy"
      /\ ret.count >= 1
      /\ \E i \in Range(song_database) : "happy" \in songs[i].mood_tags
      /\ \E j \in Range(song_database) : songs[j].mood_tags = {"sad"} )
    => \A k \in Range(playlist.songs) :
           /\ songs[k].mood_tags \cap ({"happy"} \cup synonyms["happy"]) # {}
           /\ songs[k].mood_tags # {"sad"}

\* A catalog of a sad-only, a joyful-only and a happy track, asked for two
\* or more tracks: the playlist is the happy track alone.
C3_Witness ==
    /\ ret.op = "rule_based"
    /\ ret.emotion.emotion_type = "happy"
    /\ ret.count >= 2
    /\ Len(song_database) = 3
    /\ songs[1].mood_tags = {"sad"}
    /\ songs[2].mood_tags = {"joyful"}
    /\ songs[3].mood_tags = {"happy"}
    /\ playlist.songs = <<3>>

\* C4 as stated: the filter of both strategies keeps a track exactly when
\* the mood's emotion type matches one of its tags case-insensitively,
\* directly or through the synonym table in either direction.
C4_FilterMatchesSynonyms ==
    ret.op \in Recommenders =>
        \A i \in Range(song_database) :
            (i \in Range(ret.matching)) <=>
                (\E tag \in songs[i].mood_tags : matches_mood_tag(ret.emotion, tag))

\* C4 as amended: the filter of both strategies keeps a track exactly when
\* the mood's lower-cased emotion type is equal to one of the track's tags
\* as stored; neither the synonym table nor the case of the tag is looked
\* at.  The kept tracks stay in catalog order.
C4_FilterMatchesStoredTag ==
    ret.op \in Recommenders =>
        /\ \A i \in Range(song_database) :
               (i \in Range(ret.matching)) <=>
                   (ret.emotion.emotion_type \in songs[i].mood_tags)
        /\ \A a, b \in DOMAIN ret.matching :
               a < b => \E x, y \in DOMAIN song_database :
                            /\ x < y
                            /\ song_database[x] = ret.matching[a]
                            /\ song_database[y] = ret.matching[b]

\* Mood "happy" over a joyful-only, a Happy-only and a happy track: only
\* the happy track passes the filter.
C4_Witness ==
    /\ ret.op \in Recommenders
    /\ ret.emotion.emotion_type = "happy"
    /\ Len(song_database) = 3
    /\ songs[1].mood_tags = {"joyful"}
    /\ songs[2].mood_tags = {"Happy"}
    /\ songs[3].mood_tags = {"happy"}
    /\ ret.matching = <<3>>

\* C5: in both strategies, when no catalog track matches the mood, the call
\* does not raise and the candidates are the entire catalog; with a
\* non-empty catalog and count >= 1 the playlist is non-empty and drawn from
\* the catalog.
C5_FallbackToWholeCatalog ==
    (ret.op \in Recommenders /\ ret.matching = <<>>) =>
        /\ ~ret.raised
        /\ ret.candidates = song_database
        /\ Range(ret.sorted) = Range(song_database)
        /\ (song_database # <<>> /\ ret.count >= 1) =>
               /\ playlist.songs # <<>>
               /\ Range(playlist.songs) \subseteq Range(song_database)
               /\ playlist.songs[1] = ret.sorted[1]

\* Mood "calm" over a catalog of three tracks none of which is tagged calm.
C5_Witness ==
    /\ ret.op \in Recommenders
    /\ ret.emotion.emotion_type = "calm"
    /\ ret.matching = <<>>
    /\ Len(song_database) = 3
    /\ ret.count = 2
    /\ Len(playlist.songs) = 2

\* The Scorer output the simple strategy ranks by.
ScoreOf(i) == calculate_match_score(songs[i], ret.emotion)

\* The position of a track in the candidate list.
PosIn(seq, x) == CHOOSE k \in DOMAIN seq : seq[k] = x

\* a ranks before b: higher score, or equal score and earlier candidate.
RanksBefore(a, b) ==
    \/ ScoreOf(a) > ScoreOf(b)
    \/ ScoreOf(a) = ScoreOf(b) /\ PosIn(ret.candidates, a) < PosIn(ret.candidates, b)

\* The scenario: mood (happy, 8), the six tracks in the catalog, the three
\* happy tracks rated 4.5, 3.0 and 0 (tracks a, b, c), count = 2.
ScenarioCase(a, b, c) ==
    /\ ret.op = "rule_based"
    /\ ret.emotion = [intensity |-> 8, emotion_type |-> "happy"]
    /\ ret.count = 2
    /\ Len(song_database) = 6
    /\ {a, b, c} = {1, 2, 3}
    /\ songs[a].rating = 45 /\ songs[b].rating = 30 /\ songs[c].rating = 0
    /\ \A i \in 4..6 : songs[i].mood_tags = {"sad"}

\* C6: for count >= 1 the simple strategy's playlist is the first
\* min(count, n) of the n candidates in descending score order, tracks of
\* equal score in catalog order; in the scenario the playlist is the
\* 4.5-rated track followed by the 3.0-rated track.
C6_TopCountByScoreStable ==
    (ret.op = "rule_based" /\ ret.count >= 1) =>
        LET p == playlist.songs
        IN  /\ Len(p) = Min(ret.count, Len(ret.candidates))
            /\ Range(p) \subseteq Range(ret.candidates)
            /\ \A i, j \in DOMAIN p : i < j => RanksBefore(p[i], p[j])
            /\ \A x \in Range(ret.candidates) \ Range(p) :
                   \A y \in Range(p) : RanksBefore(y, x)
            /\ \A a, b, c \in 1..3 : ScenarioCase(a, b, c) => p = <<a, b>>

\* The scenario with the ratings 0, 3.0, 4.5 on tracks 1, 2, 3.
C6_Witness ==
    /\ ScenarioCase(3, 2, 1)
    /\ playlist.songs = <<3, 2>>

\* C7 as stated: for every count <= 0 both strategies return a playlist
\* with zero tracks.
C7_NonPositiveCountEmpty ==
    (ret.op \in Recommenders /\ ret.count <= 0) => playlist.songs = <<>>

\* C8: with an empty catalog (no update_database call, or
\* update_database([])) both strategies raise no error and return a playlist
\* with zero tracks, for every mood and count.
C8_EmptyCatalogEmptyPlaylist ==
    (ret.op \in Recommenders /\ catalog = <<>>) =>
        /\ ~ret.raised
        /\ playlist.songs = <<>>

\* A recommendation asked of a recommender whose catalog was emptied.
C8_Witness ==
    /\ ret.op \in Recommenders
    /\ catalog = <<>>
    /\ ret.count >= 1
    /\ Len(songs) >= 2
    /\ playlist.songs = <<>>

\* The sum the personalized score clamps, in tenths of a point, with the
\* rating term r (in tenths).
PersonalizedSum(song, r) ==
    10 * calculate_match_score(song, ret.emotion)
    + (IF song.genre \in user.favorite_genres THEN 150 ELSE 0)
    + (IF song.tempo = user.preferred_tempo THEN 100 ELSE 0)
    + r

\* v is x clamped to [lo, hi].
IsClamped(v, x, lo, hi) ==
    /\ x < lo => v = lo
    /\ x > hi => v = hi
    /\ (lo <= x /\ x <= hi) => v = x

\* C9 as stated: the personalized score is the clamp to [0,100] of base
\* Scorer output + 15 (favorite genre) + 10 (preferred tempo) + the rating
\* bonus floor(rating x 6).
C9_AdvancedScoreUsesRatingBonus ==
    ret.op = "calculate_advanced_score" =>
        LET song == songs[ret.song]
        IN  IsClamped(ret.value,
                      PersonalizedSum(song, 10 * FloorRatingTimes6(song.rating)),
                      0, 1000)

\* C9 as amended: the personalized score is the clamp to [0,100] of base
\* Scorer output + 15 (favorite genre) + 10 (preferred tempo) + rating x 5,
\* the last term not floored, and is within [0,100].
C9_AdvancedScoreUsesRatingTimes5 ==
    ret.op = "calculate_advanced_score" =>
        LET song == songs[ret.song]
        IN  /\ IsClamped(ret.value, PersonalizedSum(song, 5 * song.rating), 0, 1000)
            /\ ret.value \in 0..1000

\* A track rated 1.7 of a favorite genre and of the preferred tempo whose
\* personalized score is not a whole number.
C9_Witness ==
    /\ ret.op = "calculate_advanced_score"
    /\ songs[1].rating = 17
    /\ songs[1].genre \in user.favorite_genres
    /\ songs[1].tempo = user.preferred_tempo
    /\ ret.value % 10 = 5
    /\ ret.value < 1000

\* The genres of a list of tracks.
GenresOf(seq) == {songs[seq[k]].genre : k \in DOMAIN seq}

\* C10: in the personalized strategy, whenever the candidates span at least
\* 3 distinct genres and count >= 3, the first 3 tracks of the playlist have
\* pairwise distinct genres.
C10_FirstThreeDistinctGenres ==
    (ret.op = "smart" /\ ret.count >= 3 /\ Cardinality(GenresOf(ret.candidates)) >= 3) =>
        /\ Len(playlist.songs) >= 3
        /\ Cardinality(GenresOf(SubSeq(playlist.songs, 1, 3))) = 3

\* Candidates matched by the filter whose three best-scored tracks repeat a
\* genre: the selection skips the repeat.
C10_Witness ==
    /\ ret.op = "smart"
    /\ ret.count >= 3
    /\ ret.matching # <<>>
    /\ Cardinality(GenresOf(ret.candidates)) >= 3
    /\ Cardinality(GenresOf(SubSeq(ret.sorted, 1, 3))) < 3
    /\ Cardinality(GenresOf(SubSeq(playlist.songs, 1, 3))) = 3

\* The positions of the score-ordered candidates s the first pass accepts
\* when asked for count tracks: position i is accepted iff fewer than count
\* positions before it were accepted and its genre is not among the
\* accepted ones or these already span 3 genres.
DiverseAccepted(s, count) ==
    LET acc[i \in 0..Len(s)] ==
            IF i = 0 THEN {}
            ELSE LET prev == acc[i - 1]
                     used == {songs[s[j]].genre : j \in prev}
                 IN  IF /\ Cardinality(prev) < count
                        /\ (songs[s[i]].genre \notin used \/ Cardinality(used) >= 3)
                     THEN prev \cup {i}
                     ELSE prev
    IN  acc[Len(s)]

\* The k-th smallest element of a set of numbers.
NthOf(S, k) == CHOOSE x \in S : Cardinality({y \in S : y < x}) = k - 1

\* C11: given n score-descending candidates and count >= 1, the diversity
\* selection returns exactly min(count, n) distinct tracks: first the tracks
\* the first pass accepts (genre not yet used, or 3 genres already accepted;
\* at most count), in score order, then, if these are fewer than count, the
\* candidates not yet selected in score order until count is reached.
C11_DiversitySelection ==
    (ret.op = "smart" /\ ret.count >= 1) =>
        LET s == ret.sorted
            p == playlist.songs
            A == DiverseAccepted(s, ret.count)
            B == (DOMAIN s) \ A
            a == Cardinality(A)
        IN  /\ Len(p) = Min(ret.count, Len(s))
            /\ \A i, j \in DOMAIN p : i # j => p[i] # p[j]
            /\ \A k \in DOMAIN p :
                   p[k] = IF k <= a THEN s[NthOf(A, k)] ELSE s[NthOf(B, k - a)]

\* The three happy tracks in score order Pop, Pop, Rock and count 3: the
\* first pass skips the second Pop track and the second pass appends it.
C11_Witness ==
    /\ ret.op = "smart"
    /\ ret.count = 3
    /\ ret.sorted = <<1, 3, 2>>
    /\ playlist.songs = <<1, 2, 3>>

\* C12: after any sequence of Playlist operations the cursor satisfies
\* 0 <= current_index <= length - 1 whenever the playlist is non-empty and
\* current_index = 0 whenever it is empty; a removal that would leave the
\* cursor past the end sets it to the last index.
C12_CursorWithinBounds ==
    /\ playlist.songs # <<>> =>
           (0 <= playlist.current_index /\ playlist.current_index <= Len(playlist.songs) - 1)
    /\ playlist.songs = <<>> => playlist.current_index = 0
    /\ ( /\ ret.op \in {"remove_song", "remove_song_at_index"}
         /\ ret.value = 1
         /\ ret.cursor >= Len(playlist.songs)
         /\ playlist.songs # <<>> )
       => playlist.current_index = Len(playlist.songs) - 1

\* The cursor stood on the last of three tracks when remove_song took a
\* track away: the cursor moved to the new last track.
C12_Witness ==
    /\ ret.op = "remove_song"
    /\ ret.value = 1
    /\ ret.cursor = 2
    /\ Len(playlist.songs) = 2
    /\ playlist.current_index = 1

\* C13: next_song moves the cursor one track forward and returns that track
\* as long as the cursor is before the last track, so from cursor 0 on a
\* playlist of length L >= 1 it returns tracks 1..L-1 in order; on the last
\* track it returns None and leaves the cursor; previous_song at cursor 0
\* returns None and leaves the cursor at 0, and otherwise moves one track
\* back.  Neither wraps around nor changes the sequence.
C13_NavigationBounded ==
    [][ /\ ret'.op = "next_song" =>
            /\ playlist'.songs = playlist.songs
            /\ IF playlist.current_index < Len(playlist.songs) - 1
               THEN /\ playlist'.current_index = playlist.current_index + 1
                    /\ ret'.value = playlist.songs[playlist.current_index + 2]
               ELSE /\ playlist'.current_index = playlist.current_index
                    /\ ret'.value = 0
        /\ ret'.op = "previous_song" =>
            /\ playlist'.songs = playlist.songs
            /\ IF playlist.current_index = 0
               THEN /\ playlist'.current_index = 0
                    /\ ret'.value = 0
               ELSE /\ playlist'.current_index = playlist.current_index - 1
                    /\ ret'.value = playlist.songs[playlist.current_index]
      ]_vars

\* next_song called with the cursor on the last of three tracks: None, and
\* the cursor is still on the last track.
C13_Witness ==
    /\ ret.op = "next_song"
    /\ ret.value = 0
    /\ ret.cursor = 2
    /\ Len(playlist.songs) = 3
    /\ playlist.current_index = 2

\* C14: set_current_index(i) sets the cursor to i when 0 <= i < length; for
\* every other i (every i on an empty playlist included) it raises and
\* leaves the cursor and the track sequence unchanged.
C14_SetCurrentIndexChecked ==
    [][ ret'.op = "set_current_index" =>
            LET i == ret'.arg[1]
            IN  IF 0 <= i /\ i < Len(playlist.songs)
                THEN /\ ~ret'.raised
                     /\ playlist'.current_index = i
                     /\ playlist'.songs = playlist.songs
                ELSE /\ ret'.raised
                     /\ playlist' = playlist
      ]_vars

\* set_current_index(length) on a playlist of two or more tracks whose
\* cursor is not at 0: rejected, the cursor stays.
C14_Witness ==
    /\ ret.op = "set_current_index"
    /\ ret.raised
    /\ Len(playlist.songs) >= 2
    /\ ret.arg = <<Len(playlist.songs)>>
    /\ ret.cursor = 1
    /\ playlist.current_index = 1

\* C15: no track occurs twice in a playlist's sequence; add_song of a track
\* already present returns False and leaves the sequence and the cursor
\* unchanged, add_song of any other track appends it and returns True, and
\* add_songs returns the number of tracks actually appended.
C15_NoDuplicates ==
    /\ [](\A i, j \in DOMAIN playlist.songs : i # j => playlist.songs[i] # playlist.songs[j])
    /\ [][ /\ ret'.op = "add_song" =>
                IF \E k \in DOMAIN playlist.songs : playlist.songs[k] = ret'.arg[1]
                THEN ret'.value = 0 /\ playlist' = playlist
                ELSE /\ ret'.value = 1
                     /\ playlist'.songs = Append(playlist.songs, ret'.arg[1])
                     /\ playlist'.current_index = playlist.current_index
            /\ ret'.op = "add_songs" =>
                /\ ret'.value = Len(playlist'.songs) - Len(playlist.songs)
                /\ SubSeq(playlist'.songs, 1, Len(playlist.songs)) = playlist.songs
                /\ Range(playlist'.songs) = Range(playlist.songs) \cup Range(ret'.arg[1])
                /\ playlist'.current_index = playlist.current_index
          ]_vars

\* add_songs([s2, s1, s2]) on a playlist that holds s1: one track appended.
C15_Witness ==
    /\ ret.op = "add_songs"
    /\ ret.arg = << <<2, 1, 2>> >>
    /\ ret.value = 1
    /\ playlist.songs = <<1, 2>>

\* The key a sort_by_* call orders track i by.
SortKey(op, i) ==
    CASE op = "sort_by_title" -> StrRank(songs[i].title)
      [] op = "sort_by_artist" -> StrRank(songs[i].artist)
      [] op = "sort_by_rating" -> songs[i].rating
      [] op = "sort_by_duration" -> songs[i].duration

\* C16: shuffle and every sort_by_* leave the set of tracks and the length
\* unchanged and set the cursor to 0; each sort_by_* puts the tracks in key
\* order (rating: highest first unless reverse is False) and is stable:
\* tracks with equal key keep their previous relative order.
C16_ShuffleSortPermute ==
    [][ /\ ret'.op \in {"shuffle", "sort_by_title", "sort_by_artist",
                         "sort_by_rating", "sort_by_duration"} =>
            /\ Len(playlist'.songs) = Len(playlist.songs)
            /\ Range(playlist'.songs) = Range(playlist.songs)
            /\ playlist'.current_index = 0
        /\ ret'.op \in {"sort_by_title", "sort_by_artist",
                         "sort_by_rating", "sort_by_duration"} =>
            LET down == ret'.op = "sort_by_rating" /\ ret'.arg[1]
                new == playlist'.songs
                old == playlist.songs
            IN  \A a, b \in DOMAIN new : a < b =>
                    LET ka == SortKey(ret'.op, new[a])
                        kb == SortKey(ret'.op, new[b])
                    IN  /\ IF down THEN ka >= kb ELSE ka <= kb
                        /\ ka = kb => PosIn(old, new[a]) < PosIn(old, new[b])
      ]_vars

\* sort_by_rating() over one track rated 3.0 and two unrated tracks that
\* stood in the order s3, s2: they stay in that order behind the rated one.
C16_Witness ==
    /\ ret.op = "sort_by_rating"
    /\ ret.arg = <<TRUE>>
    /\ songs[1].rating = 30
    /\ songs[2].rating = 0
    /\ playlist.songs = <<1, 3, 2>>
    /\ playlist.current_index = 0

\* C17: in every reachable state of a track its rating is within
\* [0.0, 5.0]; set_rating with a value in that range stores it, and with a
\* value outside it raises and leaves the rating and every other field
\* unchanged.
C17_RatingWithinRange ==
    /\ [](\A i \in DOMAIN songs : 0 <= songs[i].rating /\ songs[i].rating <= 50)
    /\ [][ ret'.op = "set_rating" =>
                IF 0 <= ret'.value /\ ret'.value <= 50
                THEN /\ ~ret'.raised
                     /\ songs' = [songs EXCEPT ![ret'.song].rating = ret'.value]
                ELSE /\ ret'.raised
                     /\ songs' = songs
          ]_vars

\* set_rating(5.5) on a track rated 5.0: rejected, the rating is still 5.0.
C17_Witness ==
    /\ ret.op = "set_rating"
    /\ ret.value = 55
    /\ ret.raised
    /\ songs[1].rating = 50

\* C18 as stated: in every reachable state of a track every stored mood tag
\* is lower-case, tags handed to the constructor included, so that a track
\* constructed with the tag "Happy" matches a mood of type "happy".
C18_TagsStoredLowerCase ==
    /\ \A i \in DOMAIN songs : \A tag \in songs[i].mood_tags : tag = Lower(tag)
    /\ (ret.op = "calculate_match_score" /\ ret.emotion.emotion_type = "happy") =>
           (ret.value >= 50 <=>
                \E tag \in songs[ret.song].mood_tags : Lower(tag) = "happy")

\* The number a numeric value stands for, in tenths.
Tenths(v) == IF v.kind = "int" THEN 10 * v.n ELSE v.n

\* The value is a number outside 1..10, or is not numeric: None, or a string
\* that is not the text of a number.
OutsideOrNonNumeric(v) ==
    \/ v.kind \in {"int", "float"} /\ (Tenths(v) < 10 \/ Tenths(v) > 100)
    \/ v.kind = "none"
    \/ v.kind = "str" /\ v.s \in {"abc", "12", "10.5"}

\* C19 as stated: in every reachable state of a mood record the intensity is
\* an integer in [1,10]; constructing with, or calling set_intensity with, a
\* value outside 1..10 or a non-numeric value stores 5; the same holds for
\* the secondary intensity of a blended mood.
C19_InvalidIntensityStoresFive ==
    /\ mood.intensity \in 1..10
    /\ mood.is_complex => mood.secondary_intensity \in 1..10
    /\ (ret.op \in {"Emotion", "ComplexEmotion", "set_intensity"}
            /\ OutsideOrNonNumeric(ret.arg[1])) => mood.intensity = 5
    /\ (ret.op = "ComplexEmotion" /\ OutsideOrNonNumeric(ret.arg[2])) =>
           mood.secondary_intensity = 5

\* The time-of-day bucket of an hour.
BucketOf(hour) ==
    CASE hour \in 5..11 -> "morning"
      [] hour \in 12..16 -> "afternoon"
      [] hour \in 17..20 -> "evening"
      [] OTHER -> "night"

\* C20: each record_mood call appends exactly one entry at the end of the
\* mood history and leaves the earlier entries unchanged and in order; the
\* entry's time-of-day bucket is morning for hours 5..11, afternoon for
\* 12..16, evening for 17..20 and night for every other hour; the histogram
\* count of that bucket goes up by exactly 1 and no other count changes.
C20_RecordMoodAppends ==
    [][ ret'.op = "record_mood" =>
            LET old == user.mood_history
                new == user'.mood_history
                hour == ret'.arg[2]
            IN  /\ Len(new) = Len(old) + 1
                /\ SubSeq(new, 1, Len(old)) = old
                /\ new[Len(new)].emotion_type = ret'.emotion.emotion_type
                /\ new[Len(new)].intensity = ret'.emotion.intensity
                /\ new[Len(new)].playlist_id = ret'.arg[1]
                /\ new[Len(new)].time_of_day = BucketOf(hour)
                /\ \A t \in TimesOfDay :
                       user'.listening_hours[t] =
                           user.listening_hours[t] + (IF t = BucketOf(hour) THEN 1 ELSE 0)
      ]_vars

\* A mood recorded at 20 h after one recorded at 21 h: the history holds
\* the night entry followed by the evening entry, one count each.
C20_Witness ==
    /\ ret.op = "record_mood"
    /\ ret.arg[2] = 20
    /\ Len(user.mood_history) = 2
    /\ user.mood_history[1].timestamp = 21
    /\ user.mood_history[1].time_of_day = "night"
    /\ user.mood_history[2].time_of_day = "evening"
    /\ user.listening_hours["evening"] = 1
    /\ user.listening_hours["night"] = 1

\* The number of entries of the history with this emotion type.
CountOf(history, emotion) ==
    Cardinality({k \in DOMAIN history : history[k].emotion_type = emotion})

\* The position of the first entry of the history with this emotion type.
FirstOf(history, emotion) ==
    CHOOSE k \in DOMAIN history :
        /\ history[k].emotion_type = emotion
        /\ \A j \in 1..(k - 1) : history[j].emotion_type # emotion

\* C21: for a non-empty history, get_mood_statistics reports total_records
\* = number of entries, most_common_mood = the emotion type with the maximum
\* count, ties going to the type recorded first, most_common_count = that
\* count, and mood_distribution = the per-type counts; after happy three
\* times and sad once, most_common_mood is "happy" with count 3.
C21_MoodStatistics ==
    (ret.op = "get_mood_statistics" /\ user.mood_history # <<>>) =>
        LET h == user.mood_history
            st == ret.stats
            types == {h[k].emotion_type : k \in DOMAIN h}
            m == st.most_common_mood
        IN  /\ {"total_records", "most_common_mood", "most_common_count",
                "mood_distribution"} \subseteq st.keys
            /\ st.total_records = Len(h)
            /\ m \in types
            /\ \A t \in types : CountOf(h, t) <= CountOf(h, m)
            /\ \A t \in types :
                   CountOf(h, t) = CountOf(h, m) => FirstOf(h, m) <= FirstOf(h, t)
            /\ st.most_common_count = CountOf(h, m)
            /\ {st.mood_distribution[k][1] : k \in DOMAIN st.mood_distribution} = types
            /\ \A k \in DOMAIN st.mood_distribution :
                   st.mood_distribution[k][2] = CountOf(h, st.mood_distribution[k][1])
            /\ (CountOf(h, "happy") = 3 /\ CountOf(h, "sad") = 1) =>
                   (m = "happy" /\ st.most_common_count = 3)

\* Statistics over sad, happy, happy, sad: a tie of two, which goes to sad,
\* the type recorded first.
C21_Witness ==
    /\ ret.op = "get_mood_statistics"
    /\ Len(user.mood_history) = 4
    /\ user.mood_history[1].emotion_type = "sad"
    /\ user.mood_history[2].emotion_type = "happy"
    /\ user.mood_history[3].emotion_type = "happy"
    /\ user.mood_history[4].emotion_type = "sad"
    /\ ret.stats.most_common_mood = "sad"
    /\ ret.stats.most_common_count = 2

\* C22 as stated: get_mood_statistics reports the favorite time-of-day
\* bucket as the bucket with the maximum histogram count, and reports
\* "unknown" as the favorite bucket whenever the mood history is empty (a
\* fresh profile, or after clear_mood_history).
C22_FavoriteTimeOrUnknown ==
    ret.op = "get_mood_statistics" =>
        /\ "favorite_time" \in ret.stats.keys
        /\ IF user.mood_history = <<>>
           THEN ret.stats.favorite_time = "unknown"
           ELSE /\ ret.stats.favorite_time \in TimesOfDay
                /\ \A t \in TimesOfDay :
                       user.listening_hours[t]
                           <= user.listening_hours[ret.stats.favorite_time]

\* C29 as stated: after any sequence of record_mood and clear_mood_history
\* calls the sum of the four listening-hour counts equals the number of
\* entries in the mood history.
C29_HistogramSumIsHistoryLength ==
    user.listening_hours["morning"] + user.listening_hours["afternoon"]
    + user.listening_hours["evening"] + user.listening_hours["night"]
        = Len(user.mood_history)

\* The index of the track a successful removal took out of playlist pl.
RemovedIndex(r, pl) ==
    IF r.op = "remove_song" THEN index_of_id(pl, r.arg[1], songs) ELSE r.arg[1]

\* C28 as stated: removing from a playlist (remove_song or
\* remove_song_at_index) a track other than the one at the cursor leaves
\* get_current_song() returning the same track as before the removal,
\* whatever the removed track's position relative to the cursor.
C28_RemovalKeepsCurrentSong ==
    [][(/\ ret'.op \in {"remove_song", "remove_song_at_index"}
        /\ ret'.value = 1
        /\ RemovedIndex(ret', playlist) # playlist.current_index)
       => get_current_song(playlist') = get_current_song(playlist)]_vars

\* The tempo a set_preferred_tempo or set_preferences call asked for, ""
\* when the call names no tempo.
RequestedTempo(r) ==
    IF r.op = "set_preferred_tempo" THEN Lower(r.arg[1])
    ELSE IF r.op = "set_preferences" /\ r.arg[1].kind = "dict"
            /\ "preferred_tempo" \in DOMAIN r.arg[1].items
         THEN r.arg[1].items.preferred_tempo
    ELSE ""

\* C25 as stated: after any sequence of profile operations
\* (set_preferred_tempo, set_preferences, add/remove_favorite_genre,
\* record_mood) the profile's preferred tempo is one of slow, medium, fast;
\* an attempt to set any other tempo is rejected with an error and leaves
\* the preferences unchanged.
C25_PreferredTempoValid ==
    /\ user.preferred_tempo \in Tempos
    /\ (RequestedTempo(ret) \notin Tempos \cup {""}) => ret.raised

\* The observable fields of a track.
ObservableFields ==
    {"song_id", "title", "artist", "file_path", "mood_tags", "tempo", "genre",
     "duration", "play_count", "rating"}

\* C23 as stated: for every reachable track state (including a non-zero
\* rating and a non-zero play count), to_dict followed by the loader's
\* reconstruction from that dict yields a track whose id, title, artist,
\* file reference, mood tags, tempo, genre, duration, play count and rating
\* all equal the original's.
C23_ToDictRoundTrip ==
    (ret.op = "load_songs" /\ ret.loaded # <<>>) =>
        \A f \in ObservableFields : ret.loaded[1][f] = songs[ret.song][f]

\* The operations of MusicPlayer that hand a song to play.
PlayOps == {"play", "play_playlist", "next", "previous"}

\* C26: a track's play count starts at 0 and never decreases over any
\* sequence of operations; a play call (direct, or made by play_playlist,
\* next or previous) that returns True adds exactly 1 to the played track's
\* count and leaves the other counts, and one that returns False (missing
\* file or load error) leaves every count unchanged.
C26_PlayCountMonotone ==
    /\ \A i \in DOMAIN songs : songs[i].play_count = 0
    /\ [][/\ DOMAIN songs' = DOMAIN songs
          /\ \A i \in DOMAIN songs : songs'[i].play_count >= songs[i].play_count
          /\ ret'.op \in PlayOps =>
                \A i \in DOMAIN songs :
                    songs'[i].play_count =
                        IF ret'.value = 1 /\ i = ret'.song
                        THEN songs[i].play_count + 1
                        ELSE songs[i].play_count]_vars

\* A play of a track that was played once before fails, and its count is
\* still 1.
C26_Witness ==
    /\ ret.op \in PlayOps
    /\ ret.song # 0
    /\ ret.value = 0
    /\ songs[ret.song].play_count = 1

\* C27 as stated: whenever next() or previous() returns False (end or start
\* of the playlist, no playlist loaded, or the target track failed to
\* play), the loaded playlist's cursor and the player's current song are
\* both unchanged.  (The claim's consequence, that the current song stays
\* the track at the cursor, rests on this step property.)
C27_FailedStepLeavesCursor ==
    [][ret'.op \in {"next", "previous"} /\ ret'.value = 0
            => /\ playlist'.current_index = playlist.current_index
               /\ player'.current_song = player.current_song]_vars

\* C30 as stated: in every state reachable by play (succeeding, failing on
\* a missing file, or failing with a load error), pause, resume, stop and
\* toggle_play_pause, the paused flag is set only while the playing flag is
\* set; pause succeeds only when playing and not paused, resume only when
\* paused, and stop clears both flags.
C30_PausedImpliesPlaying ==
    /\ [](player.is_paused => player.is_playing)
    /\ [][/\ ret'.op = "pause" /\ ret'.value = 1
                => player.is_playing /\ ~player.is_paused
          /\ ret'.op = "resume" /\ ret'.value = 1 => player.is_paused
          /\ ret'.op = "stop" => ~player'.is_playing /\ ~player'.is_paused]_vars

\* The operations C24 is about: both recommend_for_emotion strategies and
\* the later shuffles, sorts and removals on the returned playlist.
CatalogOps ==
    {"rule_based", "smart", "shuffle", "sort_by_title", "sort_by_rating",
     "remove_song", "remove_song_at_index"}

\* C24: a call to recommend_for_emotion of either strategy leaves the
\* recommender's catalog unchanged, the same tracks in the same order and
\* no field of any track modified, also on the fallback path; and so does
\* every later shuffle, sort or removal on the returned playlist.
C24_CatalogUnchanged ==
    [][ret'.op \in CatalogOps =>
           /\ song_database' = song_database
           /\ songs' = songs]_vars

\* The playlist of a fallback recommendation (it holds every track, happy
\* and sad) has been shuffled into another order than the catalog's, and
\* the catalog is in the order it was handed over in.
C24_Witness ==
    /\ ret.op = "shuffle"
    /\ Len(song_database) >= 2
    /\ song_database = catalog
    /\ Len(playlist.songs) = Len(song_database)
    /\ playlist.songs # song_database

====
